---- MODULE Spec2Model ----
(***************************************************************************)
(* A model of drmap's USGS GridFloat tile engine:                          *)
(*   - the tile fetcher        download_if_necessary   (grid_float.cpp)    *)
(*   - the plot-radius loop of main and its worker tasks    (drmap.cpp)    *)
(*   - the grid_float_tile point queries                (grid_float.cpp)   *)
(* Each part has its own specification (SpecFetch, SpecMain, SpecCell,     *)
(* SpecPoint); the variables of the other parts stay at their initial      *)
(* values.                                                                 *)
(***************************************************************************)
EXTENDS Integers, Sequences, FiniteSets, TLC

VARIABLES
  \* ---- tile fetcher: the local directory and the last call
  fs,          \* state of each file of the tile under local_directory
  dirExists,   \* whether local_directory exists
  cmds,        \* the external commands (and mkdir) the last call ran, in order
  attempts,    \* iterations of the download loop the last call completed
  outcome,     \* how the last call ended: "none", "return", "exit", "throw"
  status,      \* exit status of the process when the last call ended in exit
  calls,       \* number of calls made so far
  \* ---- main's plot-radius loop and its tasks
  mpc,         \* the main thread's position in the loop body
  iter,        \* index of the current plot radius in distances_m
  ncpus,       \* N_CPUS
  hzn,         \* whether the -hzn option was given
  sm_option,   \* whether -sm was given on the command line
  tile_llcs_mutex,  \* the thread that holds tile_llcs_mutex, or Unlocked
  k,           \* main's cursor in the loop it is in (task number or tile code)
  tile_llcs,   \* the global set of needed tile codes
  tiles,       \* the global registry: tile code -> tile
  calc,        \* state of each calculate_needed_tiles task
  dl,          \* state of each download_if_necessary task, by tile code
  pop,         \* state of each populate_fields task
  regAccess,   \* the access to `tiles` made by the last step, and by which thread
  \* ---- one grid_float_tile and the last query made on it
  n_rows,      \* _n_rows
  n_columns,   \* _n_columns
  nodata_key,  \* the key under which the header declares its NODATA sentinel
  data_file,   \* the floats of the .flt file, in file order
  sm,          \* _sm: the tile is disk-backed
  data,        \* _data: the in-memory rows (empty when disk-backed)
  ifsp,        \* _ifsp: the lazily opened stream and its read position, in bytes
  qlat,        \* latitude of the query point, in grid units
  qlon,        \* longitude of the query point, in grid units
  qop,         \* the last operation applied
  qarg,        \* the index pair the last operation was given
  qidx,        \* the index pair the last operation computed
  qres,        \* what the last operation returned, threw, or how it ended the process
  qreads,      \* the index pairs whose cells the last operation read
  nq,          \* length of the sequence of queries made, where one is followed (up to MaxQueries)
  \* ---- tile names: one conversion between a tile code, a point and a name
  name_in,     \* the tile code or the point given
  name_op,     \* the last conversion applied
  name_str,    \* the name produced, a sequence of characters
  name_code,   \* the tile code produced
  \* ---- the fields of one plot and the populate_fields tasks that fill them
  N_CPUS,      \* the number of tasks main launches, and the row increment of each
  n_cells,     \* the plot has rows and columns -n_cells .. n_cells
  elev,        \* whether the elevation field is wanted
  los,         \* whether the line-of-sight field is wanted
  grad,        \* whether the gradient field is wanted
  fault,       \* the cell at which the tile lookups fail, and how, per field
  ptask,       \* per task: its state, its position (delta_y, delta_x), what it threw
  height_field,
  angle_field,
  grad_field,
  los_field,
  writers,     \* per cell: the <<task, field>> pairs that have written it
  \* ---- one disk-backed tile of the registry queried by concurrent tasks
  readers,     \* per task: its position in cell_value, the index pair asked, the value got
  opened,      \* how many streams were opened for the tile after its construction
  deleted,     \* how many times the tile's destructor deleted a stream
  tile_state,  \* "live" while the tile is in the registry, then "destroyed"
  used_deleted, \* whether a task has used the stream after its deletion
  \* ---- the pre-scan of one iteration against the lookups that follow it
  boundary,    \* the parallel between two tiles, in units of 10 m north of the QTH
  missing      \* the lookups tiles.at(llc(p)) that found no tile: <<kind, code>>

fetchVars == <<fs, dirExists, cmds, attempts, outcome, status, calls>>

mainVars == <<mpc, iter, ncpus, hzn, sm_option, tile_llcs_mutex, k, tile_llcs, tiles, calc, dl, pop, regAccess>>

tileVars == <<n_rows, n_columns, nodata_key, data_file, sm, data, ifsp,
              qlat, qlon, qop, qarg, qidx, qres, qreads, nq>>

nameVars == <<name_in, name_op, name_str, name_code>>

fieldVars == <<N_CPUS, n_cells, elev, los, grad, fault, ptask,
               height_field, angle_field, grad_field, los_field, writers>>

sharedVars == <<readers, opened, deleted, tile_state, used_deleted>>

scanVars == <<boundary, missing>>

vars == <<fetchVars, mainVars, tileVars, nameVars, fieldVars, sharedVars, scanVars>>

\* What the steps of one part of the program leave alone.
notFetch == <<mainVars, tileVars, nameVars, fieldVars, sharedVars, scanVars>>

notMain == <<fetchVars, tileVars, nameVars, fieldVars, sharedVars, scanVars>>

notTile == <<fetchVars, mainVars, nameVars, fieldVars, sharedVars, scanVars>>

notName == <<fetchVars, mainVars, tileVars, fieldVars, sharedVars, scanVars>>

notFields == <<fetchVars, mainVars, tileVars, nameVars, sharedVars, scanVars>>

notShared == <<fetchVars, mainVars, nameVars, fieldVars, scanVars>>

(***************************************************************************)
(* Bounds                                                                  *)
(***************************************************************************)
MaxCalls == 2

\* Plot radii (iterations of main's loop), distinct tile codes, and the largest N_CPUS.
NIter == 2

NCodes == 2

MaxCPUs == 2

\* Rows and columns of a tile, half the width of a cell in grid units, and the
\* number of queries counted.
MaxDim == 2

HalfCell == 2

MaxQueries == 2

\* The latitudes and longitudes given to the name conversions reach this many
\* degrees either side of zero.
MaxDegrees == 12

\* n_cells is at most this.
MaxCells == 1

(***************************************************************************)
(* diskfile.h / diskfile.cpp                                               *)
(***************************************************************************)
\* A file is absent (or unreadable), present with no bytes, or present with bytes.
FileStates == {"absent", "empty", "full"}

\* The five names download_if_necessary touches for one tile code:
\*   hdr    usgs_ned_13_<base>_gridfloat.hdr      flt    usgs_ned_13_<base>_gridfloat.flt
\*   zip    <base>.zip
\*   althdr float<base>_13.hdr                    altflt float<base>_13.flt
Files == {"hdr", "flt", "zip", "althdr", "altflt"}

file_exists(f, n) == f[n] # "absent"

\* Size in bytes, abstracted to zero / positive.
file_size(f, n) == IF f[n] = "full" THEN 1 ELSE 0

file_empty(f, n) == file_size(f, n) = 0

file_delete(f, n) == IF file_exists(f, n) THEN [f EXCEPT ![n] = "absent"] ELSE f

\* exit(n): the status the parent sees is n modulo 256.
ExitStatus(n) == n % 256

(***************************************************************************)
(* download_if_necessary, as a function from the directory at the call to  *)
(* the set of possible results, one per combination of outcomes of mkdir,  *)
(* wget, unzip and mv.  A run is a record                                  *)
(*   [fs, dir, cmds, attempts, downloaded, out, status].                   *)
(***************************************************************************)
\* wget -q -O <zip> <url>: the archive is left absent (wget could not run or
\* write), created empty (the fetch failed) or created with content.
WgetOutcomes == {"absent", "empty", "full"}

\* unzip -qq -o -d <dir> <zip> <name>: nothing is extracted (the member is not
\* in the archive, or unzip failed), or <name> is (over)written, empty or not.
UnzipOutcomes == {"none", "empty", "full"}

\* mkdir and mv succeed or fail.
CmdOutcomes == {"ok", "fail"}

\* remote_filenames: USGS_NED_13_<base>_GridFloat.zip, then <base>.zip
remote_filenames == <<"USGS_NED_13_base_GridFloat.zip", "base.zip">>

\* A plausible slip: the early return is lost and the download always runs.
need_to_download_always(f) == TRUE

\* Lines 38-39: the header or the data file is missing or empty.
need_to_download(f) ==
  \/ ~file_exists(f, "hdr")
  \/ file_empty(f, "hdr")
  \/ ~file_exists(f, "flt")
  \/ file_empty(f, "flt")

Return(s) == [s EXCEPT !.out = "return"]

Exit(s) == [s EXCEPT !.out = "exit", !.status = ExitStatus(-1)]

\* directory_create_if_necessary: mkdir only if the directory does not exist;
\* a failing mkdir throws.
directory_create_if_necessary(s) ==
  IF s.dir
    THEN {s}
    ELSE { IF m = "ok"
             THEN [s EXCEPT !.dir = TRUE, !.cmds = Append(@, <<"mkdir", "dir">>)]
             ELSE [s EXCEPT !.out = "throw", !.cmds = Append(@, <<"mkdir", "dir">>)]
           : m \in CmdOutcomes }

Wget(s, n) ==
  { [s EXCEPT !.fs["zip"] = w, !.cmds = Append(@, <<"wget", remote_filenames[n]>>)]
    : w \in WgetOutcomes }

\* One iteration of the download loop, for remote name n.
LoopBody(s, n) ==
  LET fetched == IF ~file_exists(s.fs, "zip") THEN Wget(s, n) ELSE {s}
  IN  { IF file_empty(t.fs, "zip")
          THEN [t EXCEPT !.fs = file_delete(t.fs, "zip"), !.attempts = n]
          ELSE [t EXCEPT !.downloaded = TRUE, !.attempts = n]
        : t \in fetched }

\* for (n = 0; !downloaded and n < remote_filenames.size(); ++n)
RECURSIVE DownloadLoop(_, _)
DownloadLoop(s, n) ==
  IF s.downloaded \/ n > Len(remote_filenames)
    THEN {s}
    ELSE UNION { DownloadLoop(t, n + 1) : t \in LoopBody(s, n) }

Unzip(s, name) ==
  { [s EXCEPT !.fs[name] = IF u = "none" THEN @ ELSE u,
              !.cmds = Append(@, <<"unzip", name>>)]
    : u \in UnzipOutcomes }

Mv(s, src, dst) ==
  { IF m = "ok"
      THEN [s EXCEPT !.fs = [@ EXCEPT ![dst] = s.fs[src], ![src] = "absent"],
                     !.cmds = Append(@, <<"mv", src>>)]
      ELSE [s EXCEPT !.cmds = Append(@, <<"mv", src>>)]
    : m \in CmdOutcomes }

\* A plausible slip: the missing alternative file is not treated as fatal.
ExtractFileNoExit(s, default, alt) ==
  UNION { IF file_exists(t.fs, default)
            THEN {t}
            ELSE UNION { Mv(u, alt, default) : u \in Unzip(t, alt) }
          : t \in Unzip(s, default) }

\* Extraction of the header (lines 85-108) or of the data file (lines 110-133):
\* unzip the default name; if it does not exist afterwards unzip the
\* alternative name, exit if that does not exist either, else mv it into place.
ExtractFile(s, default, alt) ==
  UNION { IF file_exists(t.fs, default)
            THEN {t}
            ELSE UNION { IF ~file_exists(u.fs, alt)
                           THEN {Exit(u)}
                           ELSE Mv(u, alt, default)
                         : u \in Unzip(t, alt) }
          : t \in Unzip(s, default) }

download_if_necessary(f, d) ==
  LET s0 == [fs |-> f, dir |-> d, cmds |-> << >>, attempts |-> 0,
             downloaded |-> FALSE, out |-> "running", status |-> 0]
      AfterData(h) ==
        { IF x.out = "exit" THEN x ELSE Return(x) : x \in ExtractFile(h, "flt", "altflt") }
      AfterHeader(u) ==
        UNION { IF h.out = "exit" THEN {h} ELSE AfterData(h)
                : h \in ExtractFile(u, "hdr", "althdr") }
      AfterLoop(t) ==
        UNION { IF ~u.downloaded THEN {Exit(u)} ELSE AfterHeader(u)
                : u \in DownloadLoop(t, 1) }
  IN  IF ~need_to_download(f)
        THEN {Return(s0)}
        ELSE UNION { IF t.out = "throw" THEN {t} ELSE AfterLoop(t)
                     : t \in directory_create_if_necessary(s0) }

(***************************************************************************)
(* The fetcher's specification: any directory content, then calls of       *)
(* download_if_necessary for the same tile code and directory.             *)
(***************************************************************************)
IdleMain ==
  /\ mpc = "off"
  /\ iter = 0
  /\ ncpus = 0
  /\ hzn = FALSE
  /\ sm_option = FALSE
  /\ tile_llcs_mutex = 0 - 1
  /\ k = 0
  /\ tile_llcs = {}
  /\ tiles = << >>
  /\ calc = << >>
  /\ dl = << >>
  /\ pop = << >>
  /\ regAccess = [thread |-> "none", op |-> "none"]

IdleTile ==
  /\ n_rows = 0
  /\ n_columns = 0
  /\ nodata_key = "NODATA"
  /\ data_file = << >>
  /\ sm = FALSE
  /\ data = << >>
  /\ ifsp = [open |-> FALSE, pos |-> 0, good |-> TRUE]
  /\ qlat = 0
  /\ qlon = 0
  /\ qop = "none"
  /\ qarg = <<0, 0>>
  /\ qidx = <<0, 0>>
  /\ qres = [kind |-> "none", val |-> 0, den |-> 1, ub |-> FALSE]
  /\ qreads = {}
  /\ nq = 0

IdleName ==
  /\ name_in = [kind |-> "none", code |-> 0, lat |-> 0, lon |-> 0]
  /\ name_op = "none"
  /\ name_str = << >>
  /\ name_code = 0

IdleFields ==
  /\ N_CPUS = 0
  /\ n_cells = 0
  /\ elev = FALSE
  /\ los = FALSE
  /\ grad = FALSE
  /\ fault = [cell |-> <<0, 0>>, height |-> "ok", grad |-> "ok", los |-> "ok"]
  /\ ptask = << >>
  /\ height_field = << >>
  /\ angle_field = << >>
  /\ grad_field = << >>
  /\ los_field = << >>
  /\ writers = << >>

IdleShared ==
  /\ readers = << >>
  /\ opened = 0
  /\ deleted = 0
  /\ tile_state = "none"
  /\ used_deleted = FALSE

IdleScan ==
  /\ boundary = 0
  /\ missing = {}

InitFetch ==
  /\ IdleMain
  /\ IdleTile
  /\ IdleName
  /\ IdleFields
  /\ IdleShared
  /\ IdleScan
  /\ dirExists \in BOOLEAN
  /\ fs \in [Files -> FileStates]
  /\ (~dirExists => \A n \in Files : fs[n] = "absent")
  /\ cmds = << >>
  /\ attempts = 0
  /\ outcome = "none"
  /\ status = 0
  /\ calls = 0

DownloadIfNecessary ==
  /\ calls < MaxCalls
  /\ \E r \in download_if_necessary(fs, dirExists) :
       /\ fs' = r.fs
       /\ dirExists' = r.dir
       /\ cmds' = r.cmds
       /\ attempts' = r.attempts
       /\ outcome' = r.out
       /\ status' = r.status
  /\ calls' = calls + 1
  /\ UNCHANGED notFetch

NextFetch == DownloadIfNecessary

SpecFetch == InitFetch /\ [][NextFetch]_vars

(***************************************************************************)
(* main's plot-radius loop (drmap.cpp 369-977) and the tasks it starts.    *)
(* One step of a thread is one access to shared state or one loop          *)
(* iteration.  Which tile code a location maps to is left open: a task may *)
(* name any code of Codes.                                                 *)
(***************************************************************************)
Codes == 1 .. NCodes

\* llc(qth): the tile that contains the QTH.
QthCode == CHOOSE c \in Codes : \A d \in Codes : c <= d

Tasks == 1 .. MaxCPUs

NoAccess == [thread |-> "none", op |-> "none"]

\* The holder of a mutex: a calculate_needed_tiles task by its number, the
\* main thread, or nobody.
MainThread == 0

Unlocked == 0 - 1

\* A lock_guard that does not take the mutex, to test claim C19.
lock_guard_not_taken(holder, thread) == holder

\* lock_guard<mutex> tile_llcs_lock(tile_llcs_mutex): returns once the mutex
\* is free, the thread holding it.
lock_guard(holder, thread) == thread

\* The end of the scope of the lock_guard.
unlock(holder, thread) == IF holder = thread THEN Unlocked ELSE holder

MainAccess(o) == [thread |-> "main", op |-> o]

IdleFetch ==
  /\ fs = [n \in Files |-> "absent"]
  /\ dirExists = FALSE
  /\ cmds = << >>
  /\ attempts = 0
  /\ outcome = "none"
  /\ status = 0
  /\ calls = 0

InitMain ==
  /\ IdleFetch
  /\ IdleTile
  /\ IdleName
  /\ IdleFields
  /\ IdleShared
  /\ IdleScan
  /\ mpc = "scan_start"
  /\ iter = 1
  /\ ncpus \in 0 .. MaxCPUs
  /\ hzn \in BOOLEAN
  /\ sm_option \in BOOLEAN
  /\ tile_llcs_mutex = Unlocked
  /\ k = 0
  /\ tile_llcs = {}
  /\ tiles = << >>
  /\ calc = [t \in Tasks |-> "idle"]
  /\ dl = [c \in Codes |-> "idle"]
  /\ pop = [t \in Tasks |-> "idle"]
  /\ regAccess = NoAccess

\* The process runs until main returns, a thread calls exit, or an exception
\* leaves main (std::terminate).
Alive == mpc \notin {"off", "done", "exited", "terminated"}

\* A slip: the future is not waited for.
FutureReadyAlways(st) == TRUE

\* future::get() returns (or rethrows) once the task has ended.
FutureReady(st) == st \in {"done", "threw"}

\* The smallest element of S above cur: iteration over a std::set<int>.
HasNext(S, cur) == \E c \in S : c > cur

\* An iteration that does not move past the current code, to test claim C29.
NextCode_not_advancing(S, cur) == CHOOSE c \in S : c >= cur /\ \A d \in S : d >= cur => c <= d

NextCode(S, cur) == CHOOSE c \in S : c > cur /\ \A d \in S : d > cur => c <= d

\* async(launch::async, download_if_necessary, tile_llc, data_directory): the
\* state of the tasks of a code once one more is started.  Were a task of the
\* code still running, two tasks would run download_if_necessary for it.
async_download(st) == IF st = "running" THEN "raced" ELSE "running"

\* A slip: the registry is not emptied between plots.
tiles_keep(m) == m

\* tiles.clear()
tiles_clear(m) == << >>

\* tiles.insert({c, v}): std::map::insert leaves an existing entry alone.
tiles_insert(m, c, v) ==
  IF c \in DOMAIN m
    THEN m
    ELSE [d \in DOMAIN m \cup {c} |-> IF d = c THEN v ELSE m[d]]

\* Lines 384-385: tile_llcs.clear(); tile_llcs.insert(llc(qth))
ScanStart ==
  /\ mpc = "scan_start"
  /\ tile_llcs' = {QthCode}
  /\ k' = 1
  /\ mpc' = "launch_calc"
  /\ regAccess' = NoAccess
  /\ UNCHANGED notMain
  /\ UNCHANGED <<iter, ncpus, hzn, sm_option, tile_llcs_mutex, tiles, calc, dl, pop>>

\* Lines 395-396: for (start = 1; start < N_CPUS; ++start) async(calculate_needed_tiles)
LaunchCalc ==
  /\ mpc = "launch_calc"
  /\ IF k < ncpus
       THEN /\ calc' = [calc EXCEPT ![k] = "running"]
            /\ k' = k + 1
            /\ mpc' = mpc
       ELSE /\ calc' = calc
            /\ k' = 1
            /\ mpc' = IF hzn THEN "hzn_scan" ELSE "join_calc"
  /\ regAccess' = NoAccess
  /\ UNCHANGED notMain
  /\ UNCHANGED <<iter, ncpus, hzn, sm_option, tile_llcs_mutex, tile_llcs, tiles, dl, pop>>

\* Lines 399-412: the main thread's horizon pre-scan: the lock_guard of one
\* pass of the loop.
HznScanLock ==
  /\ mpc = "hzn_scan"
  /\ tile_llcs_mutex = Unlocked
  /\ tile_llcs_mutex' = lock_guard(tile_llcs_mutex, MainThread)
  /\ mpc' = "hzn_insert"
  /\ regAccess' = NoAccess
  /\ UNCHANGED notMain
  /\ UNCHANGED <<iter, ncpus, hzn, sm_option, k, tile_llcs, tiles, calc, dl, pop>>

\* Line 408: the insertion, and the end of the lock_guard's scope.
HznScanInsert ==
  /\ mpc = "hzn_insert"
  /\ \E c \in Codes : tile_llcs' = tile_llcs \cup {c}
  /\ tile_llcs_mutex' = unlock(tile_llcs_mutex, MainThread)
  /\ mpc' = "hzn_scan"
  /\ regAccess' = NoAccess
  /\ UNCHANGED notMain
  /\ UNCHANGED <<iter, ncpus, hzn, sm_option, k, tiles, calc, dl, pop>>

HznScanEnd ==
  /\ mpc = "hzn_scan"
  /\ mpc' = "join_calc"
  /\ regAccess' = NoAccess
  /\ UNCHANGED notMain
  /\ UNCHANGED <<iter, ncpus, hzn, sm_option, tile_llcs_mutex, k, tile_llcs, tiles, calc, dl, pop>>

\* calculate_needed_tiles (991-1028): the lock_guard before an insertion
\* (lines 999 and 1017).
CalcLock ==
  /\ Alive
  /\ tile_llcs_mutex = Unlocked
  /\ \E t \in Tasks :
       /\ calc[t] = "running"
       /\ calc' = [calc EXCEPT ![t] = "locked"]
       /\ tile_llcs_mutex' = lock_guard(tile_llcs_mutex, t)
  /\ regAccess' = NoAccess
  /\ UNCHANGED notMain
  /\ UNCHANGED <<mpc, iter, ncpus, hzn, sm_option, k, tile_llcs, tiles, dl, pop>>

\* Lines 1001 and 1019: the insertion, and the end of the lock_guard's scope.
CalcInsert ==
  /\ Alive
  /\ \E t \in Tasks :
       /\ calc[t] = "locked"
       /\ \E c \in Codes : tile_llcs' = tile_llcs \cup {c}
       /\ calc' = [calc EXCEPT ![t] = "running"]
       /\ tile_llcs_mutex' = unlock(tile_llcs_mutex, t)
  /\ regAccess' = NoAccess
  /\ UNCHANGED notMain
  /\ UNCHANGED <<mpc, iter, ncpus, hzn, sm_option, k, tiles, dl, pop>>

CalcEnd ==
  /\ Alive
  /\ \E t \in Tasks :
       /\ calc[t] = "running"
       /\ calc' = [calc EXCEPT ![t] = "done"]
  /\ regAccess' = NoAccess
  /\ UNCHANGED notMain
  /\ UNCHANGED <<mpc, iter, ncpus, hzn, sm_option, tile_llcs_mutex, k, tile_llcs, tiles, dl, pop>>

\* Lines 414-415: this_future.get() for each calculate_needed_tiles task in turn.
JoinCalc ==
  /\ mpc = "join_calc"
  /\ IF k < ncpus
       THEN /\ FutureReady(calc[k])
            /\ k' = k + 1
            /\ mpc' = mpc
       ELSE /\ k' = 0
            /\ mpc' = "clear_tiles"
  /\ regAccess' = NoAccess
  /\ UNCHANGED notMain
  /\ UNCHANGED <<iter, ncpus, hzn, sm_option, tile_llcs_mutex, tile_llcs, tiles, calc, dl, pop>>

\* Line 423: tiles.clear()
ClearTiles ==
  /\ mpc = "clear_tiles"
  /\ tiles' = tiles_clear(tiles)
  /\ regAccess' = MainAccess("clear")
  /\ k' = 0
  /\ mpc' = "launch_dl"
  /\ UNCHANGED notMain
  /\ UNCHANGED <<iter, ncpus, hzn, sm_option, tile_llcs_mutex, tile_llcs, calc, dl, pop>>

\* Lines 428-429: one download_if_necessary task per code of tile_llcs.
LaunchDl ==
  /\ mpc = "launch_dl"
  /\ IF HasNext(tile_llcs, k)
       THEN /\ dl' = [dl EXCEPT ![NextCode(tile_llcs, k)] = async_download(@)]
            /\ k' = NextCode(tile_llcs, k)
            /\ mpc' = mpc
       ELSE /\ dl' = dl
            /\ k' = 0
            /\ mpc' = "join_dl"
  /\ regAccess' = NoAccess
  /\ UNCHANGED notMain
  /\ UNCHANGED <<iter, ncpus, hzn, sm_option, tile_llcs_mutex, tile_llcs, tiles, calc, pop>>

\* A download_if_necessary task ends: it returns, it throws (mkdir failed), or
\* it calls exit(-1), which ends the process.
DlEnd ==
  /\ Alive
  /\ \E c \in Codes :
       /\ dl[c] = "running"
       /\ \E o \in {"return", "throw", "exit"} :
            /\ dl' = [dl EXCEPT ![c] = IF o = "throw" THEN "threw" ELSE "done"]
            /\ mpc' = IF o = "exit" THEN "exited" ELSE mpc
  /\ regAccess' = NoAccess
  /\ UNCHANGED notMain
  /\ UNCHANGED <<iter, ncpus, hzn, sm_option, tile_llcs_mutex, k, tile_llcs, tiles, calc, pop>>

\* Lines 431-432: get() for each download task in turn; get() rethrows what
\* the task threw, and main has no handler.
JoinDl ==
  /\ mpc = "join_dl"
  /\ IF HasNext(tile_llcs, k)
       THEN /\ FutureReady(dl[NextCode(tile_llcs, k)])
            /\ k' = NextCode(tile_llcs, k)
            /\ mpc' = IF dl[NextCode(tile_llcs, k)] = "threw" THEN "terminated" ELSE mpc
       ELSE /\ k' = 0
            /\ mpc' = "make_tiles"
  /\ regAccess' = NoAccess
  /\ UNCHANGED notMain
  /\ UNCHANGED <<iter, ncpus, hzn, sm_option, tile_llcs_mutex, tile_llcs, tiles, calc, dl, pop>>

\* BYTES_PER_KB of memory_information::_get_meminfo.
BYTES_PER_KB == 1024

\* Below this many available bytes a tile is left on disk.
SmThreshold == 500000000

\* MemAvailable of /proc/meminfo, in kB: none, and the two values either side
\* of the threshold.
MemAvailableKB == {0, SmThreshold \div BYTES_PER_KB, (SmThreshold \div BYTES_PER_KB) + 1}

\* mem_available(true): the value just read, in bytes.
mem_available(kb) == kb * BYTES_PER_KB

\* A decision that looks at the memory only, to test claim C16.
small_memory_by_memory_only(option, available) == available < SmThreshold

\* The third argument of the constructor:
\* cl.parameter_present("-sm") or (mem_info.mem_available(true) < 500'000'000)
small_memory(option, available) == option \/ available < SmThreshold

\* Lines 436-437: read the available memory, construct a grid_float_tile for
\* the next code and insert it; the constructor calls exit(-1) on a missing
\* file or a malformed header.
MakeTile ==
  /\ mpc = "make_tiles"
  /\ IF HasNext(tile_llcs, k)
       THEN \E ok \in BOOLEAN, kb \in MemAvailableKB :
              IF ok
                THEN /\ tiles' = tiles_insert(tiles, NextCode(tile_llcs, k),
                                    [gen |-> iter,
                                     available |-> mem_available(kb),
                                     sm |-> small_memory(sm_option, mem_available(kb))])
                     /\ regAccess' = MainAccess("insert")
                     /\ k' = NextCode(tile_llcs, k)
                     /\ mpc' = mpc
                ELSE /\ mpc' = "exited"
                     /\ regAccess' = NoAccess
                     /\ UNCHANGED <<tiles, k>>
       ELSE /\ mpc' = "qth_height"
            /\ k' = 0
            /\ regAccess' = NoAccess
            /\ tiles' = tiles
  /\ UNCHANGED notMain
  /\ UNCHANGED <<iter, ncpus, hzn, sm_option, tile_llcs_mutex, tile_llcs, calc, dl, pop>>

\* Line 450: tiles.at(llc(qth)).interpolated_value(qth); out_of_range or a
\* grid_float_error would leave main.
QthHeight ==
  /\ mpc = "qth_height"
  /\ regAccess' = MainAccess("at")
  /\ \E ok \in BOOLEAN :
       mpc' = IF QthCode \in DOMAIN tiles /\ ok THEN "launch_pop" ELSE "terminated"
  /\ k' = 1
  /\ UNCHANGED notMain
  /\ UNCHANGED <<iter, ncpus, hzn, sm_option, tile_llcs_mutex, tile_llcs, tiles, calc, dl, pop>>

\* Lines 462-467: for (start = 1; start <= N_CPUS; ++start) async(populate_fields)
LaunchPop ==
  /\ mpc = "launch_pop"
  /\ IF k <= ncpus
       THEN /\ pop' = [pop EXCEPT ![k] = "running"]
            /\ k' = k + 1
            /\ mpc' = mpc
       ELSE /\ pop' = pop
            /\ k' = 1
            /\ mpc' = "join_pop"
  /\ regAccess' = NoAccess
  /\ UNCHANGED notMain
  /\ UNCHANGED <<iter, ncpus, hzn, sm_option, tile_llcs_mutex, tile_llcs, tiles, calc, dl>>

\* populate_fields (1201, 1263-1264, 1301): tiles.at(llc(ll)); a missing tile
\* throws out_of_range, which only the line-of-sight path catches.
PopRead ==
  /\ Alive
  /\ \E t \in Tasks :
       /\ pop[t] = "running"
       /\ regAccess' = [thread |-> "populate_fields", op |-> "at"]
       /\ \E c \in Codes, caught \in BOOLEAN :
            pop' = IF c \in DOMAIN tiles \/ caught THEN pop ELSE [pop EXCEPT ![t] = "threw"]
  /\ UNCHANGED notMain
  /\ UNCHANGED <<mpc, iter, ncpus, hzn, sm_option, tile_llcs_mutex, k, tile_llcs, tiles, calc, dl>>

PopEnd ==
  /\ Alive
  /\ \E t \in Tasks :
       /\ pop[t] = "running"
       /\ pop' = [pop EXCEPT ![t] = "done"]
  /\ regAccess' = NoAccess
  /\ UNCHANGED notMain
  /\ UNCHANGED <<mpc, iter, ncpus, hzn, sm_option, tile_llcs_mutex, k, tile_llcs, tiles, calc, dl>>

\* Lines 469-470: get() for each populate_fields task in turn.
JoinPop ==
  /\ mpc = "join_pop"
  /\ IF k <= ncpus
       THEN /\ FutureReady(pop[k])
            /\ k' = k + 1
            /\ mpc' = IF pop[k] = "threw" THEN "terminated" ELSE mpc
       ELSE /\ k' = 0
            /\ mpc' = "horizon"
  /\ regAccess' = NoAccess
  /\ UNCHANGED notMain
  /\ UNCHANGED <<iter, ncpus, hzn, sm_option, tile_llcs_mutex, tile_llcs, tiles, calc, dl, pop>>

\* Lines 538-552: with -hzn the main thread reads the registry again.
HorizonRead ==
  /\ mpc = "horizon"
  /\ hzn
  /\ regAccess' = MainAccess("at")
  /\ \E c \in Codes : mpc' = IF c \in DOMAIN tiles THEN mpc ELSE "terminated"
  /\ UNCHANGED notMain
  /\ UNCHANGED <<iter, ncpus, hzn, sm_option, tile_llcs_mutex, k, tile_llcs, tiles, calc, dl, pop>>

\* The task states of a new iteration: the ended tasks of the last one are
\* forgotten.
Forget(st) == [x \in DOMAIN st |-> IF st[x] = "running" THEN "running" ELSE "idle"]

\* The end of the loop body: the next radius (the task states are those of the
\* new iteration, none started yet), or return 0 (line 979).
EndIteration ==
  /\ mpc = "horizon"
  /\ IF iter < NIter
       THEN /\ iter' = iter + 1
            /\ mpc' = "scan_start"
            /\ calc' = Forget(calc)
            /\ dl' = Forget(dl)
            /\ pop' = Forget(pop)
       ELSE /\ mpc' = "done"
            /\ UNCHANGED <<iter, calc, dl, pop>>
  /\ regAccess' = NoAccess
  /\ UNCHANGED notMain
  /\ UNCHANGED <<ncpus, hzn, sm_option, tile_llcs_mutex, k, tile_llcs, tiles>>

NextMain ==
     \/ ScanStart
     \/ LaunchCalc
     \/ HznScanLock
     \/ HznScanInsert
     \/ HznScanEnd
     \/ CalcLock
     \/ CalcInsert
     \/ CalcEnd
     \/ JoinCalc
     \/ ClearTiles
     \/ LaunchDl
     \/ DlEnd
     \/ JoinDl
     \/ MakeTile
     \/ QthHeight
     \/ LaunchPop
     \/ PopRead
     \/ PopEnd
     \/ JoinPop
     \/ HorizonRead
     \/ EndIteration

SpecMain == InitMain /\ [][NextMain]_vars

(***************************************************************************)
(* Claims about the tile fetcher (checked under SpecFetch)                 *)
(***************************************************************************)
Range(q) == { q[i] : i \in DOMAIN q }

\* C1: whenever download_if_necessary returns normally, the local header file
\* and the local data file both exist and are non-empty, whatever the directory
\* held before the call and whatever wget, unzip and mv did.
C1_FilesPresentOnReturn ==
  outcome = "return" => (fs["hdr"] = "full" /\ fs["flt"] = "full")

\* C2: a call made when the header and the data file both exist and are
\* non-empty returns at once: it runs no mkdir, wget, unzip or mv and leaves
\* every file and the directory as they were.
C2_NoWorkWhenPresent ==
  [][ (calls' = calls + 1 /\ fs["hdr"] = "full" /\ fs["flt"] = "full")
        => /\ outcome' = "return"
           /\ cmds' = << >>
           /\ fs' = fs
           /\ dirExists' = dirExists ]_vars

\* A call has returned at once, with no archive in the directory.
C2_Witness ==
  /\ calls = 1
  /\ outcome = "return"
  /\ cmds = << >>
  /\ fs["hdr"] = "full"
  /\ fs["flt"] = "full"
  /\ fs["zip"] = "absent"

\* The three fatal cases, read off the directory and the command log at the
\* end of the call.
ArchiveMissingAfterAllNames ==
  attempts = Len(remote_filenames) /\ file_empty(fs, "zip")

NoHeaderAfterExtraction ==
  /\ <<"unzip", "hdr">> \in Range(cmds)
  /\ ~file_exists(fs, "hdr")
  /\ ~file_exists(fs, "althdr")

NoDataAfterExtraction ==
  /\ <<"unzip", "flt">> \in Range(cmds)
  /\ ~file_exists(fs, "flt")
  /\ ~file_exists(fs, "altflt")

\* C3: a call ends the process, with a non-zero exit status, exactly when
\* (1) every remote name was tried and the archive is still missing or empty,
\* (2) after extraction neither header name exists, or (3) after extraction
\* neither data name exists.
C3_ExitExactlyInThreeCases ==
  outcome # "none" =>
    /\ (outcome = "exit") <=>
         (ArchiveMissingAfterAllNames \/ NoHeaderAfterExtraction \/ NoDataAfterExtraction)
    /\ (outcome = "exit" => status # 0)
    /\ (outcome # "exit" => status = 0)

\* The call extracted a header and then found neither data name.
C3_Witness ==
  /\ outcome = "exit"
  /\ status # 0
  /\ NoDataAfterExtraction
  /\ file_exists(fs, "hdr")
  /\ fs["zip"] = "full"

\* C4: after a call has returned normally, the next call for the same tile code
\* and directory downloads, extracts and renames nothing, and leaves the header
\* and the data file unchanged.
C4_SecondCallDoesNothing ==
  [][ (calls' = calls + 1 /\ outcome = "return")
        => /\ cmds' = << >>
           /\ fs'["hdr"] = fs["hdr"]
           /\ fs'["flt"] = fs["flt"] ]_vars

\* The commands of a call that fetch the n-th remote name.
Fetches(cs, n) == { i \in DOMAIN cs : cs[i] = <<"wget", remote_filenames[n]>> }

\* Claim C20: in every call of download_if_necessary a fetch of the fallback
\* name <base>.zip comes after a fetch of the primary name
\* USGS_NED_13_<base>_GridFloat.zip issued by the same call, and a call that
\* finds a non-empty local archive <base>.zip fetches nothing.
C20_PrimaryBeforeFallback ==
  [][ /\ \A i \in Fetches(cmds', 2) : \E j \in Fetches(cmds', 1) : j < i
      /\ fs["zip"] = "full" => (Fetches(cmds', 1) \cup Fetches(cmds', 2)) = {} ]_vars

(***************************************************************************)
(* Claims about main's loop (checked under SpecMain)                       *)
(***************************************************************************)
PopRunning == \E t \in Tasks : pop[t] = "running"

C6_PhasesOrdered ==
  /\ (\E c \in Codes : dl[c] # "idle") =>
       /\ \A t \in Tasks : calc[t] # "running"
       /\ \A t \in Tasks : t < ncpus => calc[t] = "done"
  /\ (\E c \in DOMAIN tiles : tiles[c].gen = iter) =>
       \A c \in Codes : IF c \in tile_llcs THEN dl[c] = "done" ELSE dl[c] = "idle"
  /\ (\E t \in Tasks : pop[t] # "idle") =>
       /\ DOMAIN tiles = tile_llcs
       /\ \A c \in DOMAIN tiles : tiles[c].gen = iter

\* In the second iteration populate_fields runs on a registry of several tiles.
C6_Witness ==
  /\ iter = NIter
  /\ PopRunning
  /\ Cardinality(tile_llcs) > 1
  /\ DOMAIN tiles = tile_llcs

\* Claim C16: every tile of the registry was constructed disk-backed exactly
\* when -sm was given or the available memory read at its own construction
\* was below 500,000,000 bytes; the reading is taken per tile.
C16_DiskBackedIffOptionOrLowMemory ==
  \A c \in DOMAIN tiles :
    tiles[c].sm <=> (sm_option \/ tiles[c].available < 500000000)

\* Without -sm, one iteration holds an earlier memory-resident tile and a
\* later disk-backed one, the threshold lying between their readings.
C16_Witness ==
  /\ ~sm_option
  /\ \E c1, c2 \in DOMAIN tiles :
       /\ c1 < c2
       /\ tiles[c1].gen = tiles[c2].gen
       /\ ~tiles[c1].sm /\ tiles[c1].available = 500000768
       /\ tiles[c2].sm /\ tiles[c2].available = 499999744

\* From the launch of the calculate_needed_tiles tasks to the end of their
\* join.
CalcPhase == mpc \in {"launch_calc", "hzn_scan", "hzn_insert", "join_calc"}

\* The step is the insertion of line 408, made by the main thread.
MainInserts == mpc = "hzn_insert" /\ mpc' = "hzn_scan"

\* The step is an insertion of line 1001 or 1019, made by task t.
TaskInserts(t) == calc[t] = "locked" /\ calc'[t] = "running"

\* Claim C19: while the calculate_needed_tiles tasks run, every insertion
\* into tile_llcs, by a task or by the horizon loop of main, is made by the
\* thread that holds tile_llcs_mutex, tile_llcs changes by such insertions
\* only, and no element leaves it.
C19_InsertionsUnderMutex ==
  [][ CalcPhase =>
        /\ MainInserts => tile_llcs_mutex = MainThread
        /\ \A t \in DOMAIN calc : TaskInserts(t) => tile_llcs_mutex = t
        /\ tile_llcs \subseteq tile_llcs'
        /\ tile_llcs' # tile_llcs =>
             (MainInserts \/ \E t \in DOMAIN calc : TaskInserts(t)) ]_vars

\* The horizon loop of main holds the mutex for its insertion while a task
\* that has already inserted a code is running, and the QTH's tile is still
\* in the set.
C19_Witness ==
  /\ mpc = "hzn_insert"
  /\ tile_llcs_mutex = MainThread
  /\ \E t \in DOMAIN calc : calc[t] = "running"
  /\ Cardinality(tile_llcs) > 1
  /\ QthCode \in tile_llcs

\* ===========================================================================
\* grid_float_tile: one tile, its header, its data and the queries on it.
\*
\* Latitudes and longitudes are integers in grid units.  A cell is CellSize
\* units wide, so that _cellsize / 2 is exact.  The floats of the data file
\* are integers (heights in metres, or the NODATA sentinel).
\* ===========================================================================

CellSize == 2 * HalfCell

\* One metre, in the units of `distance`.  The tiles the program reads have
\* cells about ten metres wide: half a cell is never less than a metre.
OneMetre == HalfCell

\* The sentinel the data files hold for a cell with no data.
NoDataValue == -9999

\* The code thrown with grid_float_error when a point has no data.
GRID_FLOAT_NODATA == -1

Abs(x) == IF x < 0 THEN -x ELSE x

\* int(a / b) for b > 0: the conversion truncates towards zero.
IntCast(a, b) == IF a >= 0 THEN a \div b ELSE -((-a) \div b)

\* The header: the lower left corner is west of Greenwich and north of the equator.
xllcorner == 0 - CellSize * MaxDim

yllcorner == CellSize

\* _nodata is set by the key NODATA only; with the key NODATA_VALUE it keeps
\* its default of zero.
nodata == IF nodata_key = "NODATA" THEN NoDataValue ELSE 0

\* The edges computed by the constructor.
xl == xllcorner

xr == xllcorner + CellSize * n_columns

yb == yllcorner

yt == yllcorner + CellSize * n_rows

\* The constructor's load of the data file into rows, when not disk-backed:
\* n_rows reads of n_columns floats each; a short file leaves zeroes.
LoadData(file, nr, nc) ==
  [r \in 1 .. nr |->
    [c \in 1 .. nc |->
      IF (r - 1) * nc + c <= Len(file) THEN file[(r - 1) * nc + c] ELSE 0]]

_is_between(v, v1, v2) == (v >= v1 /\ v <= v2) \/ (v >= v2 /\ v <= v1)

is_in_tile(lat, lon) == _is_between(lat, yb, yt) /\ _is_between(lon, xl, xr)

_map_latitude_to_index(lat) == IntCast(yt - lat, CellSize)

_map_longitude_to_index(lon) == IntCast(lon - xl, CellSize)

index_pair(lat, lon) == <<_map_latitude_to_index(lat), _map_longitude_to_index(lon)>>

\* A latitude offset of the wrong sign, to test the round trip of claim C9.
cell_centre_north(ip) == <<yt + HalfCell - ip[1] * CellSize, xl + HalfCell + ip[2] * CellSize>>

\* cell_centre(ipair): <<latitude, longitude>> of the centre of a cell.
cell_centre(ip) == <<yt - HalfCell - ip[1] * CellSize, xl + HalfCell + ip[2] * CellSize>>

\* cell_centre(latitude, longitude): the centre of the cell holding a point.
cell_centre_ll(lat, lon) == cell_centre(index_pair(lat, lon))

\* A filter that lets every height through, to test claim C22.
valid_height_always(h) == TRUE

valid_height(h) == h > nodata + 1

\* Stand-in for the great-circle distance: a metric on the grid, zero exactly
\* for equal points and growing with the offset in either coordinate.
distance(lat1, lon1, lat2, lon2) == Abs(lat1 - lat2) + Abs(lon1 - lon2)

\* A quadrant rule that never answers Q0, to test claim C10.
_quadrant_no_centre(lat, lon) ==
  LET c == cell_centre_ll(lat, lon)
  IN IF lat >= c[1] /\ lon >= c[2] THEN "Q1"
     ELSE IF lat >= c[1] /\ lon <= c[2] THEN "Q2"
     ELSE IF lat <= c[1] /\ lon <= c[2] THEN "Q3"
     ELSE "Q4"

\* A quadrant rule that tests Q2 before Q1, to test claim C27.
_quadrant_Q2_first(lat, lon) ==
  LET c == cell_centre_ll(lat, lon)
  IN IF distance(c[1], c[2], lat, lon) < OneMetre THEN "Q0"
     ELSE IF lat >= c[1] /\ lon <= c[2] THEN "Q2"
     ELSE IF lat >= c[1] /\ lon >= c[2] THEN "Q1"
     ELSE IF lat <= c[1] /\ lon <= c[2] THEN "Q3"
     ELSE "Q4"

_quadrant(lat, lon) ==
  LET c == cell_centre_ll(lat, lon)
  IN IF distance(c[1], c[2], lat, lon) < OneMetre THEN "Q0"
     ELSE IF lat >= c[1] /\ lon >= c[2] THEN "Q1"
     ELSE IF lat >= c[1] /\ lon <= c[2] THEN "Q2"
     ELSE IF lat <= c[1] /\ lon <= c[2] THEN "Q3"
     ELSE "Q4"

InRange(ip) == ip[1] \in 0 .. (n_rows - 1) /\ ip[2] \in 0 .. (n_columns - 1)

\* ---------------------------------------------------------------------------
\* The data file as a stream of bytes: _ifsp, opened on first use and kept.
\* ---------------------------------------------------------------------------

FileBytes == 4 * Len(data_file)

NullStream == [open |-> FALSE, pos |-> 0, good |-> TRUE]

\* if (_ifsp == nullptr) _ifsp = new ifstream(_data_filename)
Open(st) == IF st.open THEN st ELSE [open |-> TRUE, pos |-> 0, good |-> TRUE]

\* seekg(pos): does nothing on a failed stream; fails for a negative offset;
\* an offset past the end of the file is accepted.
seekg(st, posn) ==
  IF ~st.good THEN st
  ELSE IF posn < 0 THEN [st EXCEPT !.good = FALSE]
  ELSE [st EXCEPT !.pos = posn]

\* seekg(0, end)
seekg_end(st) == IF ~st.good THEN st ELSE [st EXCEPT !.pos = FileBytes]

\* The float at a byte offset; bytes straddling two floats form some other number.
FloatAt(posn) == IF posn % 4 = 0 THEN data_file[(posn \div 4) + 1] ELSE 0

\* read(&value, sizeof(value)): four bytes, or a failed stream at the end of the file.
read(st) ==
  IF st.good /\ st.pos + 4 <= FileBytes
    THEN [stream |-> [st EXCEPT !.pos = st.pos + 4], val |-> FloatAt(st.pos)]
    ELSE [stream |-> [st EXCEPT !.good = FALSE], val |-> 0]

\* A byte offset that scales the column but not the row, to test claim C7.
Position_row_unscaled(ip) == (ip[1] * n_columns) + (ip[2] * 4)

\* posn = (row * row_size) + (column * 4), with row_size = _n_columns * 4.  The
\* products are far from the width of int for the tiles of this model.
Position(ip) == (ip[1] * (n_columns * 4)) + (ip[2] * 4)

\* The disk-backed branch of cell_value from the seek onwards: exit(-1) when
\* the stream is not good after the seek or after the read.
SeekAndRead(st, ip) ==
  LET sought == seekg(st, Position(ip))
      got == read(sought)
  IN IF ~sought.good
       THEN [kind |-> "exit", val |-> ExitStatus(-1), ub |-> FALSE, stream |-> sought]
     ELSE IF ~got.stream.good
       THEN [kind |-> "exit", val |-> ExitStatus(-1), ub |-> FALSE, stream |-> got.stream]
     ELSE [kind |-> "value", val |-> got.val, ub |-> FALSE, stream |-> got.stream]

\* Values an out-of-bounds read of _data may yield when it does not fault.
StrayValues == {0, NoDataValue}

\* _data[row][column]: undefined behaviour outside the array: the read faults
\* or yields a stray value.
ArrayRead(ip) ==
  IF InRange(ip)
    THEN {[kind |-> "value", val |-> data[ip[1] + 1][ip[2] + 1], ub |-> FALSE]}
    ELSE {[kind |-> "fault", val |-> 0, ub |-> TRUE]}
         \cup {[kind |-> "value", val |-> v, ub |-> TRUE] : v \in StrayValues}

\* A cell_value(ip) that goes to the data file whatever _sm says, to test
\* claim C17.
cell_value_from_file(st, ip) == {SeekAndRead(Open(st), ip)}

\* cell_value(ip): no bounds checking.
cell_value(st, ip) ==
  IF sm
    THEN {SeekAndRead(Open(st), ip)}
    ELSE {[kind |-> x.kind, val |-> x.val, ub |-> x.ub, stream |-> st] : x \in ArrayRead(ip)}

\* cell_value(latitude, longitude): _nodata outside the tile.
cell_value_ll(st, lat, lon) ==
  IF is_in_tile(lat, lon)
    THEN IF sm
           THEN {SeekAndRead(seekg_end(Open(st)), index_pair(lat, lon))}
           ELSE {[kind |-> x.kind, val |-> x.val, ub |-> x.ub, stream |-> st] :
                   x \in ArrayRead(index_pair(lat, lon))}
    ELSE {[kind |-> "value", val |-> nodata, ub |-> FALSE, stream |-> st]}

\* ---------------------------------------------------------------------------
\* interpolated_value: the cell itself near its centre (Q0), otherwise the
\* inverse-distance weighted mean of the cell and three neighbours.
\* ---------------------------------------------------------------------------

\* Every branch taking the neighbours of Q1, to test claim C21.
Neighbours_of_Q1(q, ip) ==
  << <<ip[1], ip[2] + 1>>, <<ip[1] - 1, ip[2]>>, <<ip[1] - 1, ip[2] + 1>> >>

\* The three neighbours read after the cell itself, in the order of the code.
Neighbours(q, ip) ==
  LET r == ip[1]
      c == ip[2]
  IN CASE q = "Q1" -> << <<r, c + 1>>, <<r - 1, c>>, <<r - 1, c + 1>> >>
       [] q = "Q2" -> << <<r, c - 1>>, <<r - 1, c>>, <<r - 1, c - 1>> >>
       [] q = "Q3" -> << <<r, c - 1>>, <<r + 1, c>>, <<r + 1, c - 1>> >>
       [] OTHER    -> << <<r, c + 1>>, <<r + 1, c>>, <<r + 1, c + 1>> >>

\* The state of a run of reads: the heights read so far, or how the run ended.
Gathered(acc, x, cells) ==
  [kind    |-> IF x.kind = "value" THEN "ok" ELSE x.kind,
   val     |-> IF x.kind = "value" THEN 0 ELSE x.val,
   ub      |-> acc.ub \/ x.ub,
   stream  |-> x.stream,
   heights |-> IF x.kind = "value" THEN Append(acc.heights, x.val) ELSE acc.heights,
   reads   |-> acc.reads \cup cells]

RECURSIVE ReadCells(_, _)
ReadCells(accs, ips) ==
  IF ips = << >> THEN accs
  ELSE ReadCells(
         UNION { IF a.kind = "ok"
                   THEN { Gathered(a, x, {Head(ips)}) : x \in cell_value(a.stream, Head(ips)) }
                   ELSE {a} : a \in accs },
         Tail(ips))

\* h / inv_d as an exact fraction <<numerator, denominator>> over the cells in inc.
WeightedMean(heights, dists, inc) ==
  LET Others(i) == IF i = 1 THEN dists[2] * dists[3] * dists[4]
                   ELSE IF i = 2 THEN dists[1] * dists[3] * dists[4]
                   ELSE IF i = 3 THEN dists[1] * dists[2] * dists[4]
                   ELSE dists[1] * dists[2] * dists[3]
      Num(i) == IF i \in inc THEN heights[i] * Others(i) ELSE 0
      Den(i) == IF i \in inc THEN Others(i) ELSE 0
  IN <<Num(1) + Num(2) + Num(3) + Num(4), Den(1) + Den(2) + Den(3) + Den(4)>>

\* The end of a Q1..Q4 branch: only Q1 leaves out heights that are not valid.
Interpolate(a, q, lat, lon) ==
  IF a.kind # "ok"
    THEN [res |-> [kind |-> a.kind, val |-> a.val, den |-> 1, ub |-> a.ub],
          stream |-> a.stream, reads |-> a.reads]
    ELSE
      LET ip0 == index_pair(lat, lon)
          cells == <<ip0>> \o Neighbours(q, ip0)
          dists == [i \in 1 .. 4 |->
                      LET c == cell_centre(cells[i]) IN distance(c[1], c[2], lat, lon)]
          inc == IF q = "Q1" THEN { i \in 1 .. 4 : valid_height(a.heights[i]) } ELSE 1 .. 4
          mean == WeightedMean(a.heights, dists, inc)
          res == IF \E i \in inc : dists[i] = 0
                   THEN [kind |-> "nan", val |-> 0, den |-> 1, ub |-> a.ub]
                 ELSE IF mean[2] = 0
                   THEN [kind |-> "throw", val |-> GRID_FLOAT_NODATA, den |-> 1, ub |-> a.ub]
                 ELSE [kind |-> "value", val |-> mean[1], den |-> mean[2], ub |-> a.ub]
      IN [res |-> res, stream |-> a.stream, reads |-> a.reads]

\* The cells that cell_value(latitude, longitude) reads.
CellsReadAt(lat, lon) == IF is_in_tile(lat, lon) THEN {index_pair(lat, lon)} ELSE {}

interpolated_value(st, lat, lon) ==
  LET q == _quadrant(lat, lon)
      first == cell_value_ll(st, lat, lon)
      start == [kind |-> "ok", val |-> 0, ub |-> FALSE, stream |-> st,
                heights |-> << >>, reads |-> {}]
  IN IF q = "Q0"
       THEN { [res |-> IF x.kind = "value" /\ x.val < -9000
                         THEN [kind |-> "throw", val |-> GRID_FLOAT_NODATA, den |-> 1, ub |-> x.ub]
                         ELSE [kind |-> x.kind, val |-> x.val, den |-> 1, ub |-> x.ub],
               stream |-> x.stream,
               reads |-> CellsReadAt(lat, lon)] : x \in first }
       ELSE { Interpolate(a, q, lat, lon) :
                a \in ReadCells({ Gathered(start, x, CellsReadAt(lat, lon)) : x \in first },
                                Neighbours(q, index_pair(lat, lon))) }

\* ---------------------------------------------------------------------------
\* Tiles and queries.
\* ---------------------------------------------------------------------------

\* Data files of n floats: no cell, the first cell, the last cell or every cell
\* without data; the other cells hold heights that differ from cell to cell.
DataFiles(n) ==
  { [i \in 1 .. n |-> IF i \in holes THEN NoDataValue ELSE 1000 + i] :
      holes \in {{}, {1}, {n}, 1 .. n} }

NoResult == [kind |-> "none", val |-> 0, den |-> 1, ub |-> FALSE]

\* The tile after its constructor: the header read, the data loaded unless the
\* tile is disk-backed, and no stream held.
Constructed ==
  /\ n_rows \in 1 .. MaxDim
  /\ n_columns \in 1 .. MaxDim
  /\ nodata_key \in {"NODATA", "NODATA_VALUE"}
  /\ data_file \in DataFiles(n_rows * n_columns)
  /\ sm \in BOOLEAN
  /\ data = IF sm THEN << >> ELSE LoadData(data_file, n_rows, n_columns)
  /\ ifsp = NullStream
  /\ qop = "none"
  /\ qarg = <<0, 0>>
  /\ qidx = <<0, 0>>
  /\ qres = NoResult
  /\ qreads = {}
  /\ nq = 0

\* The index pairs tried: every cell, and one step outside on each side.
IndexPairs == ((0 - 1) .. n_rows) \X ((0 - 1) .. n_columns)

\* The points tried: the tile and one unit outside on each side.
PointLats == (yb - 1) .. (yt + 1)

PointLons == (xl - 1) .. (xr + 1)

\* exit(-1) or a fault ends the process.
TileAlive == qres.kind \notin {"exit", "fault"}

Counted == IF nq < MaxQueries THEN nq + 1 ELSE nq

header == <<n_rows, n_columns, nodata_key, data_file, sm, data>>

\* v = tile.cell_value(ip)
CellValue ==
  /\ TileAlive
  /\ \E ip \in IndexPairs : \E x \in cell_value(ifsp, ip) :
       /\ qop' = "cell_value"
       /\ qarg' = ip
       /\ qidx' = ip
       /\ qres' = [kind |-> x.kind, val |-> x.val, den |-> 1, ub |-> x.ub]
       /\ qreads' = {ip}
       /\ ifsp' = x.stream
  /\ nq' = Counted
  /\ UNCHANGED <<header, qlat, qlon>>
  /\ UNCHANGED notTile

\* v = tile.cell_value(lat, lon)
CellValueAt(lat, lon) ==
  /\ TileAlive
  /\ \E x \in cell_value_ll(ifsp, lat, lon) :
       /\ qop' = "cell_value_ll"
       /\ qidx' = index_pair(lat, lon)
       /\ qres' = [kind |-> x.kind, val |-> x.val, den |-> 1, ub |-> x.ub]
       /\ qreads' = CellsReadAt(lat, lon)
       /\ ifsp' = x.stream
  /\ qarg' = <<0, 0>>
  /\ UNCHANGED <<header, qlat, qlon>>
  /\ UNCHANGED notTile

\* v = tile.interpolated_value(lat, lon)
InterpolatedValueAt(lat, lon) ==
  /\ TileAlive
  /\ \E x \in interpolated_value(ifsp, lat, lon) :
       /\ qop' = "interpolated_value"
       /\ qidx' = index_pair(lat, lon)
       /\ qres' = x.res
       /\ qreads' = x.reads
       /\ ifsp' = x.stream
  /\ qarg' = <<0, 0>>
  /\ UNCHANGED <<header, qlat, qlon>>
  /\ UNCHANGED notTile

\* ip2 = tile.index_pair(tile.cell_centre(ip))
IndexPairOfCellCentre ==
  /\ TileAlive
  /\ \E ip \in IndexPairs :
       /\ qop' = "index_pair_of_cell_centre"
       /\ qarg' = ip
       /\ qidx' = index_pair(cell_centre(ip)[1], cell_centre(ip)[2])
  /\ qres' = NoResult
  /\ qreads' = {}
  /\ nq' = Counted
  /\ UNCHANGED <<header, ifsp, qlat, qlon>>
  /\ UNCHANGED notTile

\* Queries by index pair and at any point, in any order, on one tile.
InitCell ==
  /\ IdleFetch
  /\ IdleMain
  /\ IdleName
  /\ IdleFields
  /\ IdleShared
  /\ IdleScan
  /\ Constructed
  /\ qlat = 0
  /\ qlon = 0

\* The edges and the centres of the cells, and one unit outside the tile.
GridLats == {yb - 1, yt + 1} \cup { yb + HalfCell * i : i \in 0 .. (2 * n_rows) }

GridLons == {xl - 1, xr + 1} \cup { xl + HalfCell * i : i \in 0 .. (2 * n_columns) }

CellValueAtAnyPoint ==
  /\ \E lat \in GridLats : \E lon \in GridLons : CellValueAt(lat, lon)
  /\ nq' = Counted

NextCell ==
  \/ CellValue
  \/ CellValueAtAnyPoint
  \/ IndexPairOfCellCentre

SpecCell == InitCell /\ [][NextCell]_vars

\* Queries at one point of one tile.
InitPoint ==
  /\ IdleFetch
  /\ IdleMain
  /\ IdleName
  /\ IdleFields
  /\ IdleShared
  /\ IdleScan
  /\ Constructed
  /\ qlat \in PointLats
  /\ qlon \in PointLons

CellValueAtPoint == CellValueAt(qlat, qlon) /\ UNCHANGED nq

InterpolatedValueAtPoint == InterpolatedValueAt(qlat, qlon) /\ UNCHANGED nq

NextPoint ==
  \/ CellValueAtPoint
  \/ InterpolatedValueAtPoint

SpecPoint == InitPoint /\ [][NextPoint]_vars

\* ---------------------------------------------------------------------------
\* Claims about one tile.
\* ---------------------------------------------------------------------------

\* The float of the data file that belongs to a cell of the grid.
CellOfFile(ip) == data_file[(ip[1] * n_columns) + ip[2] + 1]

\* C7: for a data file of exactly n_rows * n_columns floats and every index
\* pair inside the grid, cell_value(ip) on a disk-backed tile returns the value
\* that a tile which loaded the same file into memory returns, whatever
\* queries were made before it.
C7_DiskBackedAgreesWithInMemory ==
  (sm /\ qop = "cell_value" /\ InRange(qarg)) =>
    /\ qres.kind = "value"
    /\ ~qres.ub
    /\ qres.val = LoadData(data_file, n_rows, n_columns)[qarg[1] + 1][qarg[2] + 1]

\* A disk-backed tile of more than one row and column has answered for its last
\* cell, after at least one earlier query.
C7_Witness ==
  /\ sm
  /\ Len(data_file) = n_rows * n_columns
  /\ n_rows > 1
  /\ n_columns > 1
  /\ nq >= 2
  /\ qop = "cell_value"
  /\ qarg = <<n_rows - 1, n_columns - 1>>
  /\ qres.kind = "value"
  /\ qres.val = 1000 + (n_rows * n_columns)

\* C8: for every point for which is_in_tile is true (inclusive on all four
\* edges) the row index computed for it lies in [0, n_rows) and the column
\* index in [0, n_columns).
C8_InTileIndicesInRange ==
  (qop = "cell_value_ll" /\ is_in_tile(qlat, qlon)) => InRange(qidx)

\* C9: for every index pair inside the grid, index_pair(cell_centre(ip)) = ip.
C9_CentreRoundTrip ==
  (qop = "index_pair_of_cell_centre" /\ InRange(qarg)) => qidx = qarg

\* The round trip was made for the last cell of a tile of more than one row
\* and column.
C9_Witness ==
  /\ qop = "index_pair_of_cell_centre"
  /\ n_rows > 1
  /\ n_columns > 1
  /\ qarg = <<n_rows - 1, n_columns - 1>>
  /\ qidx = qarg

\* The point queried lies within one metre of the centre of its cell.
NearCentre ==
  LET c == cell_centre_ll(qlat, qlon)
  IN distance(c[1], c[2], qlat, qlon) < OneMetre

C10_WitnessNoData ==
  /\ qop = "interpolated_value"
  /\ is_in_tile(qlat, qlon)
  /\ NearCentre
  /\ CellOfFile(qidx) = NoDataValue
  /\ qres.kind = "throw"

\* The four cells a branch Q1..Q4 selects for the point queried: the cell of
\* the point and its three neighbours.
SelectedCells ==
  LET nb == Neighbours(_quadrant(qlat, qlon), index_pair(qlat, qlon))
  IN {index_pair(qlat, qlon), nb[1], nb[2], nb[3]}

\* C11: for a point in a quadrant Q1..Q4 whose four selected cells all hold
\* the NODATA value, interpolated_value throws grid_float_error with code
\* GRID_FLOAT_NODATA and returns no value.
C11_AllNoDataThrows ==
  ( /\ qop = "interpolated_value"
    /\ is_in_tile(qlat, qlon)
    /\ _quadrant(qlat, qlon) # "Q0"
    /\ \A ip \in SelectedCells : InRange(ip) /\ CellOfFile(ip) = NoDataValue ) =>
    (qres.kind = "throw" /\ qres.val = GRID_FLOAT_NODATA)

\* The sentinel the header declares, under whichever of its two keys.
HeaderSentinel == NoDataValue

\* C12: for a point outside the tile, cell_value(lat, lon) returns the NODATA
\* sentinel that the header declares (under NODATA_VALUE or under NODATA),
\* throws nothing, reads no cell and leaves the stream as it was: a
\* disk-backed tile opens no file and makes no seek or read.
C12_OutsideTileGivesSentinel ==
  [][(qop' = "cell_value_ll" /\ ~is_in_tile(qlat, qlon)) =>
       /\ qres' = [kind |-> "value", val |-> HeaderSentinel, den |-> 1, ub |-> FALSE]
       /\ qreads' = {}
       /\ ifsp' = ifsp]_vars

\* What the constructor leaves and every query keeps: a memory-resident tile
\* holds the whole file in _data and no stream; a disk-backed tile holds no
\* data.
StrategyOfConstruction ==
  IF sm
    THEN data = << >>
    ELSE /\ ifsp = NullStream
         /\ Len(data) = n_rows
         /\ \A r \in 0 .. (n_rows - 1) :
              /\ Len(data[r + 1]) = n_columns
              /\ \A c \in 0 .. (n_columns - 1) : data[r + 1][c + 1] = CellOfFile(<<r, c>>)

\* The query just made was a point query inside the tile.
InTilePointQuery == qop = "cell_value_ll" /\ qreads # {}

\* Claim C17: the loading strategy of a tile is fixed by its constructor.  A
\* memory-resident tile keeps its array and a null file handle in every state
\* and answers from the array; a disk-backed tile keeps an empty array and
\* answers every point query inside the tile through the handle on the data
\* file; no query changes _sm or _data.
C17_StrategyNeverChanges ==
  /\ [](/\ StrategyOfConstruction
        /\ (InTilePointQuery /\ sm) =>
             /\ ifsp.open
             /\ qres.kind = "value" =>
                  /\ ifsp.pos = Position(qidx) + 4
                  /\ qres.val = FloatAt(Position(qidx))
        /\ (InTilePointQuery /\ ~sm /\ InRange(qidx)) =>
             /\ qres.kind = "value"
             /\ qres.val = data[qidx[1] + 1][qidx[2] + 1])
  /\ [][sm' = sm /\ data' = data]_vars

\* A memory-resident tile has answered a query by index pair and then a point
\* query inside the tile, and holds no file handle.
C17_Witness ==
  /\ ~sm
  /\ nq >= 2
  /\ InTilePointQuery
  /\ InRange(qidx)
  /\ qres.kind = "value"
  /\ qres.val = CellOfFile(qidx)
  /\ ifsp = NullStream
  /\ n_rows > 1


\* interpolated_value got as far as its weighted mean.
ReachedMean == qres.kind \in {"value", "throw", "nan"}

\* The corner of the cell of the point queried that lies towards quadrant q.
CornerTowards(q) ==
  LET c == cell_centre_ll(qlat, qlon)
  IN CASE q = "Q1" -> <<c[1] + HalfCell, c[2] + HalfCell>>
       [] q = "Q2" -> <<c[1] + HalfCell, c[2] - HalfCell>>
       [] q = "Q3" -> <<c[1] - HalfCell, c[2] - HalfCell>>
       [] OTHER    -> <<c[1] - HalfCell, c[2] + HalfCell>>

\* Claim C21: for a point of the tile in cell (r, c) and outside Q0,
\* interpolated_value uses exactly four cells: in Q1 (r,c), (r,c+1), (r-1,c),
\* (r-1,c+1); in Q2 (r,c), (r,c-1), (r-1,c), (r-1,c-1); in Q3 (r,c), (r,c-1),
\* (r+1,c), (r+1,c-1); in Q4 (r,c), (r,c+1), (r+1,c), (r+1,c+1).  These are
\* the cells that meet at the corner of cell (r, c) nearest to the point.
C21_FourCellsOfQuadrant ==
  (qop = "interpolated_value" /\ is_in_tile(qlat, qlon) /\ ReachedMean /\ ~NearCentre) =>
    LET r == index_pair(qlat, qlon)[1]
        c == index_pair(qlat, qlon)[2]
        q == _quadrant(qlat, qlon)
        corner == CornerTowards(q)
    IN /\ q = "Q1" => qreads = {<<r, c>>, <<r, c + 1>>, <<r - 1, c>>, <<r - 1, c + 1>>}
       /\ q = "Q2" => qreads = {<<r, c>>, <<r, c - 1>>, <<r - 1, c>>, <<r - 1, c - 1>>}
       /\ q = "Q3" => qreads = {<<r, c>>, <<r, c - 1>>, <<r + 1, c>>, <<r + 1, c - 1>>}
       /\ q = "Q4" => qreads = {<<r, c>>, <<r, c + 1>>, <<r + 1, c>>, <<r + 1, c + 1>>}
       /\ \A ip \in qreads :
            /\ Abs(cell_centre(ip)[1] - corner[1]) = HalfCell
            /\ Abs(cell_centre(ip)[2] - corner[2]) = HalfCell
       /\ \A p \in {"Q1", "Q2", "Q3", "Q4"} :
            distance(corner[1], corner[2], qlat, qlon)
              <= distance(CornerTowards(p)[1], CornerTowards(p)[2], qlat, qlon)

\* A point south-east of the centre of the first cell of a tile of two rows
\* and two columns, queried in Q4, was answered from all four cells.
C21_Witness ==
  /\ qop = "interpolated_value"
  /\ n_rows = 2
  /\ n_columns = 2
  /\ _quadrant(qlat, qlon) = "Q4"
  /\ qreads = {<<0, 0>>, <<0, 1>>, <<1, 0>>, <<1, 1>>}
  /\ qidx = <<0, 0>>
  /\ qres.kind = "value"
  /\ ~qres.ub


\* ---------------------------------------------------------------------------
\* Queries at one point of a flat tile with a single cell without data.
\* ---------------------------------------------------------------------------

\* The height of every cell of a flat tile that has data, in metres.
FlatHeight == 1000

\* Data files of n floats, all of the same height but one without data.
FlatFiles(n) ==
  { [i \in 1 .. n |-> IF i = hole THEN NoDataValue ELSE FlatHeight] : hole \in 1 .. n }

InitFlat ==
  /\ IdleFetch
  /\ IdleMain
  /\ IdleName
  /\ IdleFields
  /\ IdleShared
  /\ IdleScan
  /\ n_rows \in 1 .. MaxDim
  /\ n_columns \in 1 .. MaxDim
  /\ nodata_key \in {"NODATA", "NODATA_VALUE"}
  /\ data_file \in FlatFiles(n_rows * n_columns)
  /\ sm \in BOOLEAN
  /\ data = IF sm THEN << >> ELSE LoadData(data_file, n_rows, n_columns)
  /\ ifsp = NullStream
  /\ qop = "none"
  /\ qarg = <<0, 0>>
  /\ qidx = <<0, 0>>
  /\ qres = NoResult
  /\ qreads = {}
  /\ nq = 0
  /\ qlat \in PointLats
  /\ qlon \in PointLons

SpecFlat == InitFlat /\ [][NextPoint]_vars

\* The four cells selected for the point queried lie in the grid; one holds
\* the NODATA value and the three others the same height above NODATA + 1.
OneNoDataAmongFlat ==
  /\ \A ip \in SelectedCells : InRange(ip)
  /\ Cardinality(SelectedCells) = 4
  /\ Cardinality({ ip \in SelectedCells : CellOfFile(ip) = NoDataValue }) = 1
  /\ \A ip \in SelectedCells :
       CellOfFile(ip) # NoDataValue =>
         (CellOfFile(ip) = FlatHeight /\ FlatHeight > NoDataValue + 1)

\* Claim C22: only the Q1 branch of interpolated_value leaves the cells that
\* fail valid_height out of the weighted mean.  With exactly one NODATA cell
\* among the four selected and three cells of the same valid height h, a
\* point in Q1 gets h; a point in Q2, Q3 or Q4 gets a value that is not h
\* (it is below h), the NODATA cell being part of its mean.
C22_OnlyQ1Filters ==
  ( /\ qop = "interpolated_value"
    /\ is_in_tile(qlat, qlon)
    /\ ~NearCentre
    /\ OneNoDataAmongFlat ) =>
    /\ qres.kind = "value"
    /\ qres.den > 0
    /\ _quadrant(qlat, qlon) = "Q1" => qres.val = FlatHeight * qres.den
    /\ _quadrant(qlat, qlon) # "Q1" => qres.val < FlatHeight * qres.den

\* A point in Q1 whose own cell has no data was answered with the height of
\* its three neighbours.
C22_Witness ==
  /\ qop = "interpolated_value"
  /\ is_in_tile(qlat, qlon)
  /\ _quadrant(qlat, qlon) = "Q1"
  /\ OneNoDataAmongFlat
  /\ CellOfFile(qidx) = NoDataValue
  /\ qres.kind = "value"
  /\ qres.val = FlatHeight * qres.den


\* Claim C23: for every point of the tile, every index pair that
\* interpolated_value passes to cell_value(pair) lies in the grid:
\* 0 <= row < n_rows and 0 <= column < n_columns, also for points in the first
\* and last row and column.
C23_NeighbourIndicesInRange ==
  (qop = "interpolated_value" /\ is_in_tile(qlat, qlon)) =>
    \A ip \in qreads : ip # index_pair(qlat, qlon) => InRange(ip)


\* ---------------------------------------------------------------------------
\* One disk-backed tile of the registry, queried by the populate_fields tasks
\* at the same time.  cell_value takes no lock: the test of _ifsp, the new
\* ifstream, the seekg and the read of one task interleave with those of the
\* others.  The tile has one row; tasks ask for its cells and for the cell
\* above the first one, as interpolated_value does in Q1 and Q2.
\* ---------------------------------------------------------------------------

Readers == 1 .. MaxCPUs

SharedCells == ({0} \X (0 .. (n_columns - 1))) \cup {<<0 - 1, 0>>}

\* new ifstream(_data_filename)
NewStream == [open |-> TRUE, pos |-> 0, good |-> TRUE]

\* A read that goes to the offset of its own query first, to test claim C24.
read_value_at_own_offset(st, ip) == read(seekg(st, Position(ip)))

\* _ifsp -> read(&value, sizeof(value)): at whatever position the stream has.
read_value(st, ip) == read(st)

\* The tile is in the registry; main's query for the height of the QTH may
\* have opened its stream already.
InitShared ==
  /\ IdleFetch
  /\ IdleMain
  /\ IdleName
  /\ IdleFields
  /\ IdleScan
  /\ n_rows = 1
  /\ n_columns \in 2 .. MaxDim
  /\ nodata_key = "NODATA"
  /\ data_file = [i \in 1 .. n_columns |-> 1000 + i]
  /\ sm = TRUE
  /\ data = << >>
  /\ opened \in {0, 1}
  /\ ifsp = IF opened = 1 THEN NewStream ELSE NullStream
  /\ qlat = 0
  /\ qlon = 0
  /\ qop = "none"
  /\ qarg = <<0, 0>>
  /\ qidx = <<0, 0>>
  /\ qres = NoResult
  /\ qreads = {}
  /\ nq = 0
  /\ readers = [t \in Readers |-> [pc |-> "idle", ip |-> <<0, 0>>, val |-> 0]]
  /\ deleted = 0
  /\ tile_state = "live"
  /\ used_deleted = FALSE

queryVars == <<qlat, qlon, qop, qarg, qidx, qres, qreads, nq>>

\* ~grid_float_tile: if (_ifsp) delete _ifsp
Destructor == IF ifsp.open THEN deleted + 1 ELSE deleted

\* cell_value(ip) is entered: if (_ifsp == nullptr)
SharedEnter(t) ==
  /\ tile_state = "live"
  /\ readers[t].pc \in {"idle", "returned"}
  /\ \E ip \in SharedCells :
       readers' = [readers EXCEPT ![t] =
                     [pc |-> IF ifsp.open THEN "seek" ELSE "open", ip |-> ip, val |-> 0]]
  /\ UNCHANGED <<header, ifsp, queryVars, opened, deleted, tile_state, used_deleted>>
  /\ UNCHANGED notShared

\* _ifsp = new ifstream(_data_filename)
SharedOpen(t) ==
  /\ tile_state = "live"
  /\ readers[t].pc = "open"
  /\ ifsp' = NewStream
  /\ opened' = opened + 1
  /\ readers' = [readers EXCEPT ![t].pc = "seek"]
  /\ UNCHANGED <<header, queryVars, deleted, tile_state, used_deleted>>
  /\ UNCHANGED notShared

\* _ifsp -> seekg(posn); exit(-1) if the stream is not good.  exit destroys
\* the registry, a global, and with it the tile.
SharedSeek(t) ==
  /\ tile_state = "live"
  /\ readers[t].pc = "seek"
  /\ ifsp' = seekg(ifsp, Position(readers[t].ip))
  /\ IF ifsp'.good
       THEN /\ readers' = [readers EXCEPT ![t].pc = "read"]
            /\ UNCHANGED <<deleted, tile_state>>
       ELSE /\ readers' = [readers EXCEPT ![t].pc = "exited"]
            /\ deleted' = Destructor
            /\ tile_state' = "destroyed"
  /\ UNCHANGED <<header, queryVars, opened, used_deleted>>
  /\ UNCHANGED notShared

\* _ifsp -> read(...); exit(-1) if the stream is not good; return value.
SharedRead(t) ==
  /\ tile_state = "live"
  /\ readers[t].pc = "read"
  /\ LET got == read_value(ifsp, readers[t].ip)
     IN /\ ifsp' = got.stream
        /\ IF got.stream.good
             THEN /\ readers' = [readers EXCEPT ![t].pc = "returned", ![t].val = got.val]
                  /\ UNCHANGED <<deleted, tile_state>>
             ELSE /\ readers' = [readers EXCEPT ![t].pc = "exited"]
                  /\ deleted' = Destructor
                  /\ tile_state' = "destroyed"
  /\ UNCHANGED <<header, queryVars, opened, used_deleted>>
  /\ UNCHANGED notShared

\* A task that is inside cell_value when another task's exit has destroyed
\* the tile goes on: at the seekg or the read it uses the deleted stream.
SharedAfterExit(t) ==
  /\ tile_state = "destroyed"
  /\ readers[t].pc \in {"open", "seek", "read"}
  /\ used_deleted' = (used_deleted \/ readers[t].pc \in {"seek", "read"})
  /\ readers' = [readers EXCEPT ![t].pc = "fault"]
  /\ UNCHANGED <<header, ifsp, queryVars, opened, deleted, tile_state>>
  /\ UNCHANGED notShared

Enter == \E t \in Readers : SharedEnter(t)

OpenStream == \E t \in Readers : SharedOpen(t)

Seek == \E t \in Readers : SharedSeek(t)

Read == \E t \in Readers : SharedRead(t)

AfterExit == \E t \in Readers : SharedAfterExit(t)

\* The tasks have been joined; tiles.clear() in the next iteration, or the
\* end of the process, destroys the tile.
ClearAfterJoin ==
  /\ tile_state = "live"
  /\ \A t \in Readers : readers[t].pc \in {"idle", "returned"}
  /\ deleted' = Destructor
  /\ tile_state' = "destroyed"
  /\ UNCHANGED <<header, ifsp, queryVars, readers, opened, used_deleted>>
  /\ UNCHANGED notShared

NextShared ==
  \/ Enter
  \/ OpenStream
  \/ Seek
  \/ Read
  \/ AfterExit
  \/ ClearAfterJoin

SpecShared == InitShared /\ [][NextShared]_vars

C25_OneHandlePerTile ==
  /\ opened = 0 => ~ifsp.open
  /\ opened <= 1
  /\ tile_state = "live" => deleted = 0
  /\ tile_state = "destroyed" => deleted = opened

\* Claim C30: no stream of a tile is deleted twice or used after its
\* deletion, and each stream opened by a point query is deleted exactly
\* once, when the registry entry is destroyed by tiles.clear() or at the end
\* of the process.
C30_HandlesDeletedOnce ==
  /\ deleted <= 1
  /\ deleted <= opened
  /\ ~used_deleted
  /\ tile_state = "destroyed" => deleted = opened


\* Claim C27: _quadrant answers exactly one of Q0 .. Q4 for every point: Q0
\* within one metre of the centre of the cell; otherwise Q1 north-east of the
\* centre, the centre parallel east of the centre and the centre meridian
\* north of it included; Q2 north-west, the centre parallel west of the centre
\* included; Q3 south-west, the centre meridian south of the centre included;
\* and Q4 south-east, with neither axis.
C27_QuadrantFirstMatch ==
  (qop = "interpolated_value" /\ is_in_tile(qlat, qlon)) =>
    LET q == _quadrant(qlat, qlon)
        dlat == qlat - cell_centre(index_pair(qlat, qlon))[1]
        dlon == qlon - cell_centre(index_pair(qlat, qlon))[2]
        near == Abs(dlat) + Abs(dlon) < OneMetre
    IN /\ q \in {"Q0", "Q1", "Q2", "Q3", "Q4"}
       /\ q = "Q0" <=> near
       /\ q = "Q1" <=> (~near /\ dlat >= 0 /\ dlon >= 0)
       /\ q = "Q2" <=> (~near /\ dlat >= 0 /\ dlon < 0)
       /\ q = "Q3" <=> (~near /\ dlat < 0 /\ dlon <= 0)
       /\ q = "Q4" <=> (~near /\ dlat < 0 /\ dlon > 0)
       /\ (~near /\ dlat = 0) => q = (IF dlon > 0 THEN "Q1" ELSE "Q2")
       /\ (~near /\ dlon = 0) => q = (IF dlat > 0 THEN "Q1" ELSE "Q3")

\* A point on the meridian of the centre of its cell, north of the centre and
\* not within a metre of it, was queried and answered with a value.
C27_Witness ==
  /\ qop = "interpolated_value"
  /\ is_in_tile(qlat, qlon)
  /\ qlon = cell_centre(index_pair(qlat, qlon))[2]
  /\ qlat >= cell_centre(index_pair(qlat, qlon))[1] + OneMetre
  /\ _quadrant(qlat, qlon) = "Q1"
  /\ qres.kind = "value"

\* A point on the parallel of the centre of its cell, west of the centre and
\* not within a metre of it, was queried.
C27_WitnessParallel ==
  /\ qop = "interpolated_value"
  /\ is_in_tile(qlat, qlon)
  /\ qlat = cell_centre(index_pair(qlat, qlon))[1]
  /\ qlon <= cell_centre(index_pair(qlat, qlon))[2] - OneMetre
  /\ _quadrant(qlat, qlon) = "Q2"

\* ===========================================================================
\* Tile names: "nLLwLLL", the tile code lat * 1000 + (positive) long, and the
\* conversions between them.  A string is a sequence of characters.  A point
\* is given in half degrees, so that 1.0 degree is 2.
\* ===========================================================================

\* The widths to which base_filename(llcode) pads the latitude and the longitude.
LatDigits == 2

LongDigits == 3

DigitChars == <<"0", "1", "2", "3", "4", "5", "6", "7", "8", "9">>

RECURSIVE Pow10(_)
Pow10(n) == IF n = 0 THEN 1 ELSE 10 * Pow10(n - 1)

\* Integer division and remainder as in C++: the quotient truncates towards zero.
CDiv(a, b) == IntCast(a, b)

CMod(a, b) == a - (b * IntCast(a, b))

\* to_string(int): operator<< of an int, in decimal.
RECURSIVE Decimal(_)
Decimal(n) == IF n < 10 THEN <<DigitChars[n + 1]>>
              ELSE Decimal(n \div 10) \o <<DigitChars[(n % 10) + 1]>>

to_string(n) == IF n < 0 THEN <<"-">> \o Decimal(-n) ELSE Decimal(n)

\* pad_string(s, len, PAD_LEFT, '0'): a string already long enough is returned as it is.
pad_string(str, len) ==
  IF Len(str) >= len THEN str ELSE [i \in 1 .. (len - Len(str)) |-> "0"] \o str

\* substr(pos, len): at most len characters from position pos (from zero).
substr(str, pos, len) ==
  SubSeq(str, pos + 1, IF pos + len <= Len(str) THEN pos + len ELSE Len(str))

DigitValue(ch) == CHOOSE d \in 0 .. 9 : DigitChars[d + 1] = ch

\* The digits a stream extraction of an int consumes: it stops at the first
\* character that is not a digit.
RECURSIVE ParseDigits(_, _)
ParseDigits(str, acc) ==
  IF str = << >> \/ Head(str) \notin {DigitChars[i] : i \in 1 .. 10} THEN acc
  ELSE ParseDigits(Tail(str), (acc * 10) + DigitValue(Head(str)))

\* from_string<int>(s): stream >> t, decimal, with an optional sign; zero when
\* no digit is found.
from_string(str) ==
  IF str # << >> /\ Head(str) = "-" THEN -ParseDigits(Tail(str), 0)
  ELSE ParseDigits(str, 0)

\* base_filename(llcode)
base_filename_llcode(llcode) ==
  <<"n">> \o pad_string(to_string(CDiv(llcode, 1000)), LatDigits)
          \o <<"w">> \o pad_string(to_string(CMod(llcode, 1000)), LongDigits)

\* base_filename(latitude, longitude): the latitude is not padded.
base_filename(lat, lon) ==
  <<"n">> \o to_string(IntCast(lat + 2, 2))
          \o <<"w">> \o pad_string(to_string(IntCast((-lon) + 2, 2)), LongDigits)

\* llc(latitude, longitude)
llc(lat, lon) == (IntCast(lat + 2, 2) * 1000) + IntCast(-(lon - 2), 2)

\* A parse that takes the latitude from the first character of the name, to test claim C13.
llc_basefilename_from_start(str) ==
  (from_string(substr(str, 0, 2)) * 1000) + from_string(substr(str, 4, 3))

\* llc(basefilename)
llc_basefilename(str) ==
  (from_string(substr(str, 1, 2)) * 1000) + from_string(substr(str, 4, 3))

\* The tile codes lat * 1000 + long of two latitude digits and three longitude digits.
TileCodes ==
  { (lat * 1000) + lon : lat \in 0 .. (Pow10(LatDigits) - 1), lon \in 0 .. (Pow10(LongDigits) - 1) }

HalfDegrees == (0 - (2 * MaxDegrees)) .. (2 * MaxDegrees)

InitName ==
  /\ IdleFetch
  /\ IdleMain
  /\ IdleTile
  /\ IdleFields
  /\ IdleShared
  /\ IdleScan
  /\ name_in \in { [kind |-> "code", code |-> c, lat |-> 0, lon |-> 0] : c \in TileCodes }
                 \cup { [kind |-> "point", code |-> 0, lat |-> a, lon |-> b] :
                          a \in HalfDegrees, b \in HalfDegrees }
  /\ name_op = "none"
  /\ name_str = << >>
  /\ name_code = 0

\* s = base_filename(llcode)
BaseFilenameOfCode ==
  /\ name_in.kind = "code"
  /\ name_op = "none"
  /\ name_op' = "base_filename(llcode)"
  /\ name_str' = base_filename_llcode(name_in.code)
  /\ UNCHANGED <<name_in, name_code>>
  /\ UNCHANGED notName

\* s = base_filename(latitude, longitude)
BaseFilenameOfPoint ==
  /\ name_in.kind = "point"
  /\ name_op = "none"
  /\ name_op' = "base_filename(lat, lon)"
  /\ name_str' = base_filename(name_in.lat, name_in.lon)
  /\ UNCHANGED <<name_in, name_code>>
  /\ UNCHANGED notName

\* c = llc(s), for the name just produced
LlcOfName ==
  /\ name_op \in {"base_filename(llcode)", "base_filename(lat, lon)"}
  /\ name_op' = "llc(basefilename)"
  /\ name_code' = llc_basefilename(name_str)
  /\ UNCHANGED <<name_in, name_str>>
  /\ UNCHANGED notName

\* c = llc(latitude, longitude)
LlcOfPoint ==
  /\ name_in.kind = "point"
  /\ name_op = "none"
  /\ name_op' = "llc(lat, lon)"
  /\ name_code' = llc(name_in.lat, name_in.lon)
  /\ UNCHANGED <<name_in, name_str>>
  /\ UNCHANGED notName

\* s = base_filename(c), for the code just produced from a point
BaseFilenameOfLlc ==
  /\ name_op = "llc(lat, lon)"
  /\ name_op' = "base_filename(llc(lat, lon))"
  /\ name_str' = base_filename_llcode(name_code)
  /\ UNCHANGED <<name_in, name_code>>
  /\ UNCHANGED notName

NextName ==
  \/ BaseFilenameOfCode
  \/ BaseFilenameOfPoint
  \/ LlcOfName
  \/ LlcOfPoint
  \/ BaseFilenameOfLlc

SpecName == InitName /\ [][NextName]_vars

\* C13: for every tile code c = lat * 1000 + lon with 0 <= lat <= 99 and
\* 0 <= lon <= 999, llc(base_filename(c)) = c.
C13_CodeRoundTrip ==
  (name_in.kind = "code" /\ name_op = "llc(basefilename)") => name_code = name_in.code

\* The round trip was made for a code whose latitude and longitude both need padding.
C13_Witness ==
  /\ name_in.kind = "code"
  /\ name_in.code = 7008
  /\ name_op = "llc(basefilename)"
  /\ name_str = <<"n", "0", "7", "w", "0", "0", "8">>
  /\ name_code = 7008

\* "n", two digits, "w", three digits.
WellFormedName(str) ==
  /\ Len(str) = LatDigits + LongDigits + 2
  /\ str[1] = "n"
  /\ str[LatDigits + 2] = "w"
  /\ \A i \in (2 .. (LatDigits + 1)) \cup ((LatDigits + 3) .. (LatDigits + LongDigits + 2)) :
       str[i] \in {DigitChars[d] : d \in 1 .. 10}

\* C14: both overloads of base_filename give "n", two latitude digits, "w" and
\* three longitude digits, and they agree: base_filename(lat, lon) equals
\* base_filename(llc(lat, lon)).  Stated for the points north of the equator
\* and west of Greenwich, and for the codes of two and three digits.
C14_NameOverloadsAgree ==
  /\ name_op = "base_filename(llcode)" => WellFormedName(name_str)
  /\ (name_op = "base_filename(lat, lon)" /\ name_in.lat >= 0 /\ name_in.lon <= 0) =>
       /\ WellFormedName(name_str)
       /\ name_str = base_filename_llcode(llc(name_in.lat, name_in.lon))

\* ===========================================================================
\* populate_fields: N_CPUS tasks, each filling every N_CPUS-th row of the
\* fields of one plot.  A cell is <<row_index, column_index>>.  The heights,
\* angles and gradients computed are stood for by 1000, 1 and 1; the fields
\* start at zero and the line-of-sight field at UNKNOWN.
\* ===========================================================================

Cells == (0 .. (2 * n_cells)) \X (0 .. (2 * n_cells))

Workers == 1 .. N_CPUS

\* What tiles.at(llc(ll)).interpolated_value(ll) does: it returns a height,
\* interpolated_value throws grid_float_error, or tiles.at throws out_of_range.
Lookups == {"ok", "grid_float_error", "out_of_range"}

\* The walk along the bearing for the line of sight makes the same lookups,
\* and may also find the cell hidden behind the terrain.
SightLookups == Lookups \cup {"hidden"}

Lookup(c, field) == IF c = fault.cell THEN fault[field] ELSE "ok"

\* A handler that lets everything through, to test claim C15.
catches_nothing(handler, exc) == FALSE

\* catch (const grid_float_error&) and catch (...)
catches(handler, exc) == handler = "..." \/ handler = exc

\* One pass of the body of the inner loop for cell c: the fields after it, the
\* fields written, and the exception that leaves populate_fields, if any.
LoopPass(c) ==
  LET centre == c = <<n_cells, n_cells>>
      h == Lookup(c, "height")
      hEsc == h # "ok" /\ ~catches("grid_float_error", h)
      raw_value == IF h = "ok" THEN 1000 ELSE NoDataValue
      g == Lookup(c, "grad")
      gRuns == ~hEsc /\ grad
      gEsc == gRuns /\ ~centre /\ g # "ok" /\ ~catches("grid_float_error", g)
      l == Lookup(c, "los")
      lRuns == ~hEsc /\ ~gEsc /\ los
      lEsc == lRuns /\ ~centre /\ l \notin {"ok", "hidden"} /\ ~catches("...", l)
  IN [height |-> IF hEsc THEN height_field
                 ELSE [height_field EXCEPT ![c] = IF h = "ok" THEN 1000 ELSE NoDataValue],
      angle  |-> IF hEsc \/ ~elev THEN angle_field
                 ELSE [angle_field EXCEPT ![c] = IF raw_value > -9000 THEN 1 ELSE NoDataValue],
      grad   |-> IF ~gRuns \/ gEsc THEN grad_field
                 ELSE [grad_field EXCEPT ![c] = IF centre THEN 0
                                               ELSE IF g = "ok" THEN 1 ELSE NoDataValue],
      los    |-> IF ~lRuns \/ lEsc THEN los_field
                 ELSE [los_field EXCEPT ![c] = IF centre \/ l = "ok"
                                                 THEN "VISIBLE" ELSE "NOT_VISIBLE"],
      wrote  |-> (IF hEsc THEN {} ELSE {"height_field"})
                 \cup (IF hEsc \/ ~elev THEN {} ELSE {"angle_field"})
                 \cup (IF ~gRuns \/ gEsc THEN {} ELSE {"grad_field"})
                 \cup (IF ~lRuns \/ lEsc THEN {} ELSE {"los_field"}),
      exc    |-> IF hEsc THEN h ELSE IF gEsc THEN g ELSE IF lEsc THEN l ELSE "none"]

\* Every task starting at the first row, to test claim C18.
delta_y_start_first_row(start) == -n_cells

\* The delta_y_start that main passes to task start: (-n_cells + (start - 1)).
delta_y_start(start) == (-n_cells) + (start - 1)

\* The fields as main creates them, and the tasks as main launches them:
\* task start begins at row -n_cells + (start - 1) and steps by N_CPUS rows.
Launched ==
  /\ N_CPUS \in 1 .. MaxCPUs
  /\ n_cells \in 0 .. MaxCells
  /\ elev \in BOOLEAN
  /\ los \in BOOLEAN
  /\ grad \in BOOLEAN
  /\ ptask = [start \in Workers |->
                [state |-> "running", delta_y |-> delta_y_start(start),
                 delta_x |-> -n_cells, exc |-> "none"]]
  /\ height_field = [c \in Cells |-> 0]
  /\ angle_field = [c \in Cells |-> 0]
  /\ grad_field = [c \in Cells |-> 0]
  /\ los_field = [c \in Cells |-> "UNKNOWN"]
  /\ writers = [c \in Cells |-> {}]

\* The body of the inner loop, once, in task t; an exception that is not
\* caught ends the task.
PopulateCell(t) ==
  /\ ptask[t].state = "running"
  /\ ptask[t].delta_y <= n_cells
  /\ LET c == <<ptask[t].delta_y + n_cells, ptask[t].delta_x + n_cells>>
         pass == LoopPass(c)
     IN /\ height_field' = pass.height
        /\ angle_field' = pass.angle
        /\ grad_field' = pass.grad
        /\ los_field' = pass.los
        /\ writers' = [writers EXCEPT ![c] = @ \cup {<<t, f>> : f \in pass.wrote}]
        /\ ptask' = [ptask EXCEPT ![t] =
             IF pass.exc # "none"
               THEN [@ EXCEPT !.state = "threw", !.exc = pass.exc]
             ELSE IF @.delta_x < n_cells
               THEN [@ EXCEPT !.delta_x = @ + 1]
             ELSE [@ EXCEPT !.delta_y = @ + N_CPUS, !.delta_x = -n_cells]]
  /\ UNCHANGED <<N_CPUS, n_cells, elev, los, grad, fault>>
  /\ UNCHANGED notFields

\* The outer loop ends: populate_fields returns.
PopulateReturn(t) ==
  /\ ptask[t].state = "running"
  /\ ptask[t].delta_y > n_cells
  /\ ptask' = [ptask EXCEPT ![t].state = "done"]
  /\ UNCHANGED <<N_CPUS, n_cells, elev, los, grad, fault,
                 height_field, angle_field, grad_field, los_field, writers>>
  /\ UNCHANGED notFields

\* The tasks one after the other, with lookups failing at one cell.
InitFields ==
  /\ IdleFetch
  /\ IdleMain
  /\ IdleTile
  /\ IdleName
  /\ IdleShared
  /\ IdleScan
  /\ Launched
  /\ fault \in [cell : Cells, height : Lookups, grad : Lookups, los : SightLookups]
  \* a lookup that is never made has no outcome to choose
  /\ ~grad => fault.grad = "ok"
  /\ ~los => fault.los = "ok"
  /\ (fault.height = "ok" /\ fault.grad = "ok" /\ fault.los = "ok") => fault.cell = <<0, 0>>

Turn(t) == \A u \in Workers : u < t => ptask[u].state # "running"

FieldsCell == \E t \in Workers : Turn(t) /\ PopulateCell(t)

FieldsReturn == \E t \in Workers : Turn(t) /\ PopulateReturn(t)

NextFields ==
  \/ FieldsCell
  \/ FieldsReturn

SpecFields == InitFields /\ [][NextFields]_vars

\* The cells of the rows that task t is launched for.
CellsOf(t) ==
  { c \in Cells : c[1] >= t - 1 /\ (c[1] - (t - 1)) % N_CPUS = 0 }

\* Task t has made its pass of the loop body for cell c, to its end or to an
\* exception that left populate_fields.
Passed(t, c) ==
  /\ c \in CellsOf(t)
  /\ LET at == <<ptask[t].delta_y + n_cells, ptask[t].delta_x + n_cells>>
     IN \/ ptask[t].state = "done"
        \/ ptask[t].state = "threw" /\ (c[1] < at[1] \/ (c[1] = at[1] /\ c[2] <= at[2]))
        \/ ptask[t].state = "running" /\ (c[1] < at[1] \/ (c[1] = at[1] /\ c[2] < at[2]))

\* C15: a grid_float_error thrown by interpolated_value for a cell never
\* leaves populate_fields: the height field of that cell is set to -9999 (in
\* the gradient path the gradient field to -9999, in the line-of-sight path
\* the line-of-sight field to NOT_VISIBLE), and the task goes on to process
\* every remaining cell of its rows.
C15_ErrorsContained ==
  \A t \in DOMAIN ptask :
    LET c == fault.cell
        centre == c = <<n_cells, n_cells>>
    IN /\ ptask[t].exc # "grid_float_error"
       /\ ptask[t].state = "threw" => "out_of_range" \in {fault.height, fault.grad, fault.los}
       /\ ptask[t].state = "done" =>
            \A d \in CellsOf(t) : <<t, "height_field">> \in writers[d]
       /\ Passed(t, c) =>
            /\ fault.height = "grid_float_error" => height_field[c] = NoDataValue
            /\ (fault.grad = "grid_float_error" /\ ~centre /\ fault.height # "out_of_range") =>
                 grad_field[c] = NoDataValue
            /\ (fault.los = "grid_float_error" /\ ~centre
                  /\ fault.height # "out_of_range" /\ fault.grad # "out_of_range") =>
                 los_field[c] = "NOT_VISIBLE"

\* Every lookup for the first cell threw grid_float_error, the three fields
\* hold their sentinels there, and the task went on to finish its rows.
C15_Witness ==
  \E t \in DOMAIN ptask :
    /\ ptask[t].state = "done"
    /\ n_cells >= 1
    /\ fault = [cell |-> <<0, 0>>, height |-> "grid_float_error",
                grad |-> "grid_float_error", los |-> "grid_float_error"]
    /\ <<0, 0>> \in CellsOf(t)
    /\ height_field[<<0, 0>>] = NoDataValue
    /\ grad_field[<<0, 0>>] = NoDataValue
    /\ los_field[<<0, 0>>] = "NOT_VISIBLE"
    /\ height_field[<<0, 2 * n_cells>>] = 1000
    /\ los_field[<<0, 2 * n_cells>>] = "VISIBLE"

\* ---------------------------------------------------------------------------
\* The tasks of populate_fields running concurrently, every lookup succeeding.
\* ---------------------------------------------------------------------------

NoFault == [cell |-> <<0, 0>>, height |-> "ok", grad |-> "ok", los |-> "ok"]

InitRows ==
  /\ IdleFetch
  /\ IdleMain
  /\ IdleTile
  /\ IdleName
  /\ IdleShared
  /\ IdleScan
  /\ Launched
  /\ fault = NoFault

RowsCell == \E t \in Workers : PopulateCell(t)

RowsReturn == \E t \in Workers : PopulateReturn(t)

NextRows ==
  \/ RowsCell
  \/ RowsReturn

SpecRows == InitRows /\ [][NextRows]_vars

\* The tasks that have written some field of cell c.
WritersOf(c) == { w[1] : w \in writers[c] }

AllReturned == \A t \in DOMAIN ptask : ptask[t].state = "done"

\* Claim C18: for every N_CPUS >= 1 and every n_cells the tasks of
\* populate_fields partition the rows -n_cells .. n_cells: no cell of the four
\* fields is ever written by two tasks, all the cells of a row are written by
\* the same task, and once every task has returned each cell has been
\* processed by exactly one task.
C18_RowsPartitioned ==
  /\ \A c \in DOMAIN writers : Cardinality(WritersOf(c)) <= 1
  /\ \A c, d \in DOMAIN writers :
       c[1] = d[1] => Cardinality(WritersOf(c) \cup WritersOf(d)) <= 1
  /\ AllReturned =>
       \A c \in DOMAIN writers :
         /\ Cardinality(WritersOf(c)) = 1
         /\ \A t \in WritersOf(c) : <<t, "height_field">> \in writers[c]

\* More tasks than one and more rows than tasks: everything has returned,
\* the first task having written rows 0 and N_CPUS and the last task row
\* N_CPUS - 1.
C18_Witness ==
  /\ AllReturned
  /\ N_CPUS > 1
  /\ 2 * n_cells + 1 > N_CPUS
  /\ WritersOf(<<0, 0>>) = {1}
  /\ WritersOf(<<N_CPUS, 2 * n_cells>>) = {1}
  /\ WritersOf(<<N_CPUS - 1, 0>>) = {N_CPUS}


(***************************************************************************)
(* The pre-scan of one iteration against the lookups that follow it         *)
(* (drmap.cpp 384-416, 450, 538-552, 991-1028, 1185-1329).  Distances are   *)
(* in units of 10 m, the delta_distance of the gradient; the QTH is at      *)
(* northing 0, the cell (delta_x, delta_y) at northing delta_y * Square,    *)
(* and the parallel at northing boundary separates two tiles: a point is    *)
(* in the northern tile when it lies north of that parallel.                *)
(***************************************************************************)

\* distance_per_square
Square == 2

\* hzn_distance_limit
HznLimit == 6

\* The percentages n of the walk along a bearing that are kept; both loops,
\* of calculate_needed_tiles and of populate_fields, take the same ones.
SightSteps == {95, 50, 5}

\* The percentages pc of the horizon loops that are kept, on the bearings
\* 0 (sign 1) and 180 (sign -1).
HznSteps == {50, 100}

HznBearings == {1, 0 - 1}

\* llc of the point at northing num / den.
llc_northing(num, den) == IF num > boundary * den THEN "north" ELSE "south"

\* llc of the point at distance_to_square + sign * 10 m on the bearing of the
\* cell (delta_x, delta_y): its northing is delta_y * Square + sign * cos,
\* where cos = delta_y / sqrt(delta_x^2 + delta_y^2) is in -1 .. 1 and is 1
\* or -1 only on the meridian of the QTH.
llc_gradient(delta_x, delta_y, sign) ==
  LET m == boundary - delta_y * Square
      u == sign * delta_y
      above == IF m >= 1 THEN FALSE
               ELSE IF m <= 0 - 2 THEN TRUE
               ELSE IF m = 0 THEN u > 0
               ELSE ~(delta_x = 0 /\ u < 0)
  IN IF above THEN "north" ELSE "south"

\* The codes that one call of calculate_needed_tiles inserts in tile_llcs.
calculate_needed_tiles(y_start, y_increment) ==
  LET rows == { dy \in (0 - n_cells) .. n_cells :
                  dy >= y_start /\ (dy - y_start) % y_increment = 0 }
  IN { llc_northing(dy * Square, 1) : dy \in rows }
     \cup (IF los
             THEN { llc_northing(c[3] * c[2] * Square, 100) :
                      c \in { d \in ((0 - n_cells) .. n_cells) \X rows \X SightSteps :
                                d[1] # 0 \/ d[2] # 0 } }
             ELSE {})

\* The codes of the sample points of the horizon, in the pre-scan and in the
\* horizon loop alike.
HorizonCodes == { llc_northing(p[1] * p[2] * HznLimit, 100) : p \in HznBearings \X HznSteps }

\* The tasks of the pre-scan: start = 1 .. N_CPUS - 1.
Scanners == 1 .. (N_CPUS - 1)

InitScan ==
  /\ IdleFetch
  /\ IdleTile
  /\ IdleName
  /\ IdleShared
  /\ mpc = "scan"
  /\ iter = 0
  /\ ncpus = 0
  /\ hzn \in BOOLEAN
  /\ sm_option = FALSE
  /\ tile_llcs_mutex = Unlocked
  /\ k = 0
  /\ N_CPUS \in 1 .. MaxCPUs
  /\ n_cells \in 0 .. MaxCells
  /\ elev = FALSE
  /\ los \in BOOLEAN
  /\ grad \in BOOLEAN
  /\ fault = [cell |-> <<0, 0>>, height |-> "ok", grad |-> "ok", los |-> "ok"]
  /\ boundary \in (0 - (MaxCells * Square + 1)) .. (MaxCells * Square + 1)
  /\ tile_llcs = {llc_northing(0, 1)}
  /\ tiles = << >>
  /\ calc = [start \in Scanners |-> "running"]
  /\ dl = << >>
  /\ pop = << >>
  /\ regAccess = [thread |-> "none", op |-> "none"]
  /\ ptask = << >>
  /\ height_field = << >>
  /\ angle_field = << >>
  /\ grad_field = << >>
  /\ los_field = << >>
  /\ writers = << >>
  /\ missing = {}

scanRest == <<iter, ncpus, hzn, sm_option, tile_llcs_mutex, k, dl, pop, regAccess,
              N_CPUS, n_cells, elev, los, grad, fault,
              height_field, angle_field, grad_field, los_field, writers, boundary>>

\* One task of the pre-scan runs calculate_needed_tiles to its end.
ScanTask ==
  /\ \E start \in DOMAIN calc :
       /\ calc[start] = "running"
       /\ tile_llcs' = tile_llcs \cup
            calculate_needed_tiles((0 - n_cells) + (start - 1), N_CPUS - 1)
       /\ calc' = [calc EXCEPT ![start] = "done"]
  /\ UNCHANGED <<mpc, tiles, ptask, missing>>
  /\ UNCHANGED scanRest
  /\ UNCHANGED <<fetchVars, tileVars, nameVars, sharedVars>>

\* The main thread adds the sample points of the horizon, if hzn.
ScanHorizon ==
  /\ mpc = "scan"
  /\ tile_llcs' = tile_llcs \cup (IF hzn THEN HorizonCodes ELSE {})
  /\ mpc' = "join_calc"
  /\ UNCHANGED <<tiles, calc, ptask, missing>>
  /\ UNCHANGED scanRest
  /\ UNCHANGED <<fetchVars, tileVars, nameVars, sharedVars>>

\* The futures of the pre-scan are joined, one tile is built for every code of
\* tile_llcs, the height of the QTH is looked up, and the tasks of
\* populate_fields are started.
ScanLoad ==
  /\ mpc = "join_calc"
  /\ \A start \in DOMAIN calc : calc[start] = "done"
  /\ tiles' = [c \in tile_llcs |-> "tile"]
  /\ missing' = missing \cup
       (IF llc_northing(0, 1) \in tile_llcs THEN {} ELSE {<<"qth", llc_northing(0, 1)>>})
  /\ ptask' = [start \in Workers |->
                 [state |-> "running", delta_y |-> delta_y_start(start),
                  delta_x |-> -n_cells, exc |-> "none"]]
  /\ mpc' = "join_pop"
  /\ UNCHANGED <<tile_llcs, calc>>
  /\ UNCHANGED scanRest
  /\ UNCHANGED <<fetchVars, tileVars, nameVars, sharedVars>>

\* The lookups tiles.at(llc(p)) of one pass of the inner loop of
\* populate_fields for the cell (delta_x, delta_y) that find no tile, and
\* whether std::out_of_range leaves populate_fields: the handlers of the
\* height and of the gradient catch grid_float_error only, the handler of the
\* walk along the bearing catches everything.
CellLookups(delta_x, delta_y) ==
  LET centre == delta_x = 0 /\ delta_y = 0
      reg == DOMAIN tiles
      h == llc_northing(delta_y * Square, 1)
      hMiss == h \notin reg
      gm == llc_gradient(delta_x, delta_y, 0 - 1)
      gp == llc_gradient(delta_x, delta_y, 1)
      gRuns == ~hMiss /\ grad /\ ~centre
      gmMiss == gRuns /\ gm \notin reg
      gpMiss == gRuns /\ ~gmMiss /\ gp \notin reg
      lRuns == ~hMiss /\ ~gmMiss /\ ~gpMiss /\ los /\ ~centre
      lMiss == IF lRuns
                 THEN { n \in SightSteps : llc_northing(n * delta_y * Square, 100) \notin reg }
                 ELSE {}
      first == CHOOSE n \in lMiss : \A o \in lMiss : o <= n
  IN [miss |-> (IF hMiss THEN {<<"height", h>>} ELSE {})
               \cup (IF gmMiss THEN {<<"gradient", gm>>} ELSE {})
               \cup (IF gpMiss THEN {<<"gradient", gp>>} ELSE {})
               \cup (IF lMiss # {}
                       THEN {<<"sight", llc_northing(first * delta_y * Square, 100)>>}
                       ELSE {}),
      exc  |-> IF hMiss \/ gmMiss \/ gpMiss THEN "out_of_range" ELSE "none"]

\* The body of the inner loop of populate_fields, once, in task t.
ScanCell ==
  /\ mpc = "join_pop"
  /\ \E t \in DOMAIN ptask :
       /\ Turn(t)
       /\ ptask[t].state = "running"
       /\ ptask[t].delta_y <= n_cells
       /\ LET pass == CellLookups(ptask[t].delta_x, ptask[t].delta_y)
          IN /\ missing' = missing \cup pass.miss
             /\ ptask' = [ptask EXCEPT ![t] =
                  IF pass.exc # "none"
                    THEN [@ EXCEPT !.state = "threw", !.exc = pass.exc]
                  ELSE IF @.delta_x < n_cells
                    THEN [@ EXCEPT !.delta_x = @ + 1]
                  ELSE [@ EXCEPT !.delta_y = @ + N_CPUS, !.delta_x = -n_cells]]
  /\ UNCHANGED <<mpc, tile_llcs, tiles, calc>>
  /\ UNCHANGED scanRest
  /\ UNCHANGED <<fetchVars, tileVars, nameVars, sharedVars>>

\* The outer loop of populate_fields ends in task t.
ScanReturn ==
  /\ mpc = "join_pop"
  /\ \E t \in DOMAIN ptask :
       /\ Turn(t)
       /\ ptask[t].state = "running"
       /\ ptask[t].delta_y > n_cells
       /\ ptask' = [ptask EXCEPT ![t].state = "done"]
  /\ UNCHANGED <<mpc, tile_llcs, tiles, calc, missing>>
  /\ UNCHANGED scanRest
  /\ UNCHANGED <<fetchVars, tileVars, nameVars, sharedVars>>

\* Every task of populate_fields has returned: the horizon loop, if hzn.
ScanHorizonLoop ==
  /\ mpc = "join_pop"
  /\ \A t \in DOMAIN ptask : ptask[t].state = "done"
  /\ missing' = missing \cup
       (IF hzn THEN { <<"horizon", c>> : c \in HorizonCodes \ DOMAIN tiles } ELSE {})
  /\ mpc' = "done"
  /\ UNCHANGED <<tile_llcs, tiles, calc, ptask>>
  /\ UNCHANGED scanRest
  /\ UNCHANGED <<fetchVars, tileVars, nameVars, sharedVars>>

NextScan ==
  \/ ScanTask
  \/ ScanHorizon
  \/ ScanLoad
  \/ ScanCell
  \/ ScanReturn
  \/ ScanHorizonLoop

SpecScan == InitScan /\ [][NextScan]_vars

\* Claim C26: for every N_CPUS >= 1 and every combination of los, grad and
\* hzn, the code of every location at which populate_fields or the horizon
\* loop calls tiles.at(llc(p)) was inserted in tile_llcs by the pre-scan of
\* the iteration, so that no lookup finds its tile missing.
C26_PreScanExhaustive == missing = {}

\* The part of claim C26 that holds: the walk along the bearing and the
\* horizon loop look up no tile that the pre-scan left out, once the height
\* of the cell itself was found.
C26_SightAndHorizonScanned ==
  \A m \in missing : m[1] \in {"height", "gradient"}

\* Claim C28: for every latitude and longitude of either sign,
\* llc(latitude, longitude) is floor(latitude + 1) * 1000 + floor(-(longitude - 1)).
\* Points are in half degrees; \div rounds towards minus infinity.
C28_LlcIsFloor ==
  name_op = "llc(lat, lon)" =>
    name_code = (((name_in.lat + 2) \div 2) * 1000) + ((0 - (name_in.lon - 2)) \div 2)

\* The part of claim C28 that holds: the two agree north of 1 degree south
\* and west of 1 degree east, and wherever latitude and longitude are whole
\* numbers of degrees.
C28_LlcIsFloorNorthWest ==
  (/\ name_op = "llc(lat, lon)"
   /\ \/ name_in.lat >= 0 - 2 /\ name_in.lon <= 2
      \/ name_in.lat % 2 = 0 /\ name_in.lon % 2 = 0) =>
    name_code = (((name_in.lat + 2) \div 2) * 1000) + ((0 - (name_in.lon - 2)) \div 2)

\* The local files download_if_necessary(llcode, directory) writes: the
\* archive, the header and the data file, under their names and under the
\* alternative names of the archive's members.
LocalFiles(llcode) ==
  LET base == base_filename_llcode(llcode)
  IN { base \o <<".zip">>,
       <<"usgs_ned_13_">> \o base \o <<"_gridfloat.hdr">>,
       <<"usgs_ned_13_">> \o base \o <<"_gridfloat.flt">>,
       <<"float">> \o base \o <<"_13.hdr">>,
       <<"float">> \o base \o <<"_13.flt">> }

\* Claim C29: within one iteration download_if_necessary is started at most
\* once for a tile code, and only for the codes of tile_llcs, so that no two
\* download tasks running at the same time write the same local archive,
\* header or data file.
C29_OneDownloadPerCode ==
  /\ \A c \in DOMAIN dl : dl[c] # "raced"
  /\ \A c \in DOMAIN dl : dl[c] = "running" => c \in tile_llcs
  /\ \A c \in DOMAIN dl : \A d \in DOMAIN dl :
       (c # d /\ dl[c] = "running" /\ dl[d] = "running") =>
         LocalFiles(c) \cap LocalFiles(d) = {}

\* In an iteration after the first, two download tasks run at the same time.
C29_Witness ==
  /\ iter > 1
  /\ Cardinality({ c \in DOMAIN dl : dl[c] = "running" }) >= 2

====
